---- MODULE Spec2Model ----
(***************************************************************************)
(* State-machine model of the e-mail credential path of the repository:   *)
(* the AES-GCM helpers (the controller's encrypt/decrypt and the two      *)
(* revisions of encryptV2/decryptV2), the credential controller, the      *)
(* e-mail router with its error middleware, and the process-wide IMAP_*   *)
(* environment variables through which credentials reach the MCP tool.    *)
(***************************************************************************)
EXTENDS Integers, Sequences, FiniteSets

VARIABLES
  ENCRYPTION_KEY, \* the key material the module holds for the process lifetime
  legacyCipher,   \* whether the runtime still has crypto.createCipher/createDecipher
  rng,            \* number of crypto.randomBytes(16) calls made so far
  cImpl,          \* pure-function experiment: which module is exercised
  cText,          \* pure-function experiment: the plaintext under test
  cEnc,           \* pure-function experiment: outcomes of the encrypt calls so far
  cDec,           \* pure-function experiment: the last decrypt call and its outcome
  now,            \* the clock new Date() reads
  db,             \* the user collection: each registered user's emailConfig
  env,            \* process.env.IMAP_* (with the request that wrote them last)
  reqs,           \* the requests suspended at an await, by slot
  resp,           \* the response sent by the last step, if it sent one
  lastSaved,      \* per user, the request body of the save stored last
  pReq,           \* pure-function experiment: an e-mail request (handler, req.body)
  pArgs,          \* pure-function experiment: the tool call made for pReq
  mErr,           \* pure-function experiment: an error handed to next, and NODE_ENV
  mRes,           \* pure-function experiment: what the error middleware answered
  CRYPTO_KEY,     \* process.env.EMAIL_ENCRYPTION_KEY / CRYPTO_KEY of the deployment
  boots,          \* number of restarts of the process so far
  bootedAt,       \* what the clock read when the process started last
  kKey,           \* pure-function experiment: the key a module holds after its load
  SESSION_FILE,   \* work-session tracker: /tmp/librechat-work-session
  WORK_LOG_FILE,  \* work-session tracker: ~/.librechat-work-log.txt
  shell,          \* work-session tracker: the clock, the last command and its exit status
  SharedLink,     \* the shared-link collection
  pager           \* a client following nextCursor of getSharedLinks page after page

cvars == <<cImpl, cText, cEnc, cDec>>
svars == <<now, db, env, reqs, resp, lastSaved>>
pvars == <<pReq, pArgs, mErr, mRes>>
kvars == <<CRYPTO_KEY, boots, bootedAt, kKey>>
tvars == <<SESSION_FILE, WORK_LOG_FILE, shell>>
lvars == <<SharedLink, pager>>
vars == <<ENCRYPTION_KEY, legacyCipher, rng, cImpl, cText, cEnc, cDec,
          now, db, env, reqs, resp, lastSaved, pReq, pArgs, mErr, mRes,
          CRYPTO_KEY, boots, bootedAt, kKey,
          SESSION_FILE, WORK_LOG_FILE, shell, SharedLink, pager>>

-----------------------------------------------------------------------------
(* Bounds of the model.                                                    *)

\* longest plaintext (in characters) the experiments encrypt
MaxLen == 2
\* most encrypt calls of one experiment
MaxEnc == 2

\* most valid save requests (each draws one iv and reads the clock once)
MaxSaves == 2

\* characters the plaintexts are made of: 'A' (1 byte in UTF-8), e-acute
\* (2 bytes), the euro sign (3 bytes)
Alphabet == {65, 233, 8364}

\* key materials (a configured string or the bytes of crypto.randomBytes(32),
\* named by a small number)
Keys == {1, 2}

RECURSIVE StringsUpTo(_)
StringsUpTo(n) ==
  IF n = 0 THEN {<<>>}
  ELSE LET S == StringsUpTo(n - 1)
       IN  S \cup {Append(s, c) : s \in {t \in S : Len(t) = n - 1}, c \in Alphabet}

Strings == StringsUpTo(MaxLen)

-----------------------------------------------------------------------------
(* Bytes, hex and UTF-8: Buffer.toString('hex'), Buffer.from(s, 'hex') and  *)
(* the 'utf8' input/output encodings of cipher.update / decipher.update.    *)

\* bitwise exclusive or of two bytes
Xor(a, b) ==
  LET x(w) == (((a \div w) + (b \div w)) % 2) * w
  IN  x(1) + x(2) + x(4) + x(8) + x(16) + x(32) + x(64) + x(128)

\* two hex digits per byte, high nibble first; a digit stands for its character
HexEncode(bytes) ==
  [i \in 1..(2 * Len(bytes)) |->
     IF i % 2 = 1 THEN bytes[(i + 1) \div 2] \div 16 ELSE bytes[i \div 2] % 16]

\* pairs of digits back to bytes; a trailing odd digit is dropped
HexDecode(hex) ==
  [i \in 1..(Len(hex) \div 2) |-> hex[2 * i - 1] * 16 + hex[2 * i]]

Utf8Char(c) ==
  IF c < 128 THEN <<c>>
  ELSE IF c < 2048 THEN <<192 + (c \div 64), 128 + (c % 64)>>
  ELSE <<224 + (c \div 4096), 128 + ((c \div 64) % 64), 128 + (c % 64)>>

RECURSIVE Utf8Encode(_)
Utf8Encode(s) ==
  IF s = <<>> THEN <<>> ELSE Utf8Char(Head(s)) \o Utf8Encode(Tail(s))

IsCont(bytes, i) == i <= Len(bytes) /\ bytes[i] >= 128 /\ bytes[i] < 192

ReplacementChar == 65533

RECURSIVE Utf8Decode(_)
\* an ill-formed byte decodes to U+FFFD, as the string decoder does
Utf8Decode(bytes) ==
  IF bytes = <<>> THEN <<>>
  ELSE LET b == Head(bytes) IN
    IF b < 128 THEN <<b>> \o Utf8Decode(Tail(bytes))
    ELSE IF b >= 192 /\ b < 224 /\ IsCont(bytes, 2)
      THEN <<(b - 192) * 64 + (bytes[2] - 128)>> \o Utf8Decode(SubSeq(bytes, 3, Len(bytes)))
    ELSE IF b >= 224 /\ b < 240 /\ IsCont(bytes, 2) /\ IsCont(bytes, 3)
      THEN <<(b - 224) * 4096 + (bytes[2] - 128) * 64 + (bytes[3] - 128)>>
             \o Utf8Decode(SubSeq(bytes, 4, Len(bytes)))
    ELSE <<ReplacementChar>> \o Utf8Decode(Tail(bytes))

-----------------------------------------------------------------------------
(* AES-256-GCM, abstracted: a counter-mode stream cipher whose key stream  *)
(* is a function of key and IV, and an ideal 16-byte tag that is injective *)
(* in (key, IV, ciphertext) for the ciphertexts of this model.             *)

IvLen == 16
AuthTagLen == 16

\* crypto.randomBytes(16): the n-th value drawn, big-endian; a CSPRNG is taken
\* not to repeat
RandomBytes(n) == [i \in 1..IvLen |-> IF i = IvLen THEN n % 256 ELSE 0]

\* EVP_BytesToKey(password): what createCipher/createDecipher derive the AES key
\* and the IV from; both depend on the password alone
EvpBytesToKey(password) ==
  [key |-> (password * 37 + 11) % 256, iv |-> (password * 101 + 7) % 256]

KeyStream(key, iv, i) == (key * 7 + iv * 13 + i * 29 + 3) % 256

GcmCrypt(key, iv, bytes) ==
  [i \in 1..Len(bytes) |-> Xor(bytes[i], KeyStream(key, iv, i))]

GcmTag(key, iv, ct) ==
  LET raw == <<key, iv, Len(ct)>> \o ct
  IN  [i \in 1..AuthTagLen |-> IF i <= Len(raw) THEN raw[i] ELSE 0]

Value(v) == [kind |-> "value", val |-> v]
Null == [kind |-> "null"]
Throw(name) == [kind |-> "throw", name |-> name]

\* crypto.createCipher(alg, password): update(text,'utf8','hex') + final('hex'),
\* getAuthTag(); the random iv is only copied into the record
LegacyEncrypt(text, password, n) ==
  LET kd == EvpBytesToKey(password)
      ct == GcmCrypt(kd.key, kd.iv, Utf8Encode(text))
  IN  Value([encrypted |-> HexEncode(ct),
             iv |-> HexEncode(RandomBytes(n)),
             authTag |-> HexEncode(GcmTag(kd.key, kd.iv, ct))])

\* LegacyDecrypt returning what update() produced without final() verifying the tag
LegacyDecryptUnverified(data, password) ==
  LET kd == EvpBytesToKey(password)
  IN  Value(Utf8Decode(GcmCrypt(kd.key, kd.iv, HexDecode(data.encrypted))))

\* crypto.createDecipher(alg, password): setAuthTag, update(enc,'hex','utf8'),
\* final('utf8') throws when the tag does not verify; the iv field is not read
LegacyDecrypt(data, password) ==
  LET kd == EvpBytesToKey(password)
      ct == HexDecode(data.encrypted)
  IN  IF HexDecode(data.authTag) = GcmTag(kd.key, kd.iv, ct)
      THEN Value(Utf8Decode(GcmCrypt(kd.key, kd.iv, ct)))
      ELSE Throw("Error")

\* the controller's encrypt(text)
encrypt(text, key, n, legacy) ==
  IF legacy THEN LegacyEncrypt(text, key, n) ELSE Throw("TypeError")

\* the controller's decrypt(encryptedData); arg is Null or Value(record), and
\* reading a field of null throws a TypeError
decrypt(arg, key, legacy) ==
  IF ~legacy \/ arg.kind = "null" THEN Throw("TypeError")
  ELSE LegacyDecrypt(arg.val, key)

\* encryptV2, first revision
encryptV2_r1(text, key, n, legacy) ==
  IF text = <<>> THEN Null
  ELSE IF legacy THEN LegacyEncrypt(text, key, n) ELSE Throw("TypeError")

\* decryptV2, first revision: every failure is caught and turned into null
decryptV2_r1(arg, key, legacy) ==
  IF arg.kind = "null" \/ arg.val.encrypted = <<>> THEN Null
  ELSE LET r == IF legacy THEN LegacyDecrypt(arg.val, key) ELSE Throw("TypeError")
       IN  IF r.kind = "throw" THEN Null ELSE r

\* crypto.createCipherGCM / crypto.createDecipherGCM: the crypto module has no
\* such functions on any runtime, so calling one throws a TypeError
CreateCipherGCM == Throw("TypeError")

\* encryptV2, second revision
encryptV2(text, key, n, legacy) ==
  IF text = <<>> THEN Null ELSE CreateCipherGCM

\* decryptV2, second revision: the throw happens inside the try, and the catch
\* returns null
decryptV2(arg, key, legacy) ==
  IF arg.kind = "null" \/ arg.val.encrypted = <<>> THEN Null
  ELSE LET r == CreateCipherGCM
       IN  IF r.kind = "throw" THEN Null ELSE r

Impls == {"controller", "v2r1", "v2r2"}

Encrypt(impl, text, key, n, legacy) ==
  CASE impl = "controller" -> encrypt(text, key, n, legacy)
    [] impl = "v2r1" -> encryptV2_r1(text, key, n, legacy)
    [] impl = "v2r2" -> encryptV2(text, key, n, legacy)

Decrypt(impl, arg, key, legacy) ==
  CASE impl = "controller" -> decrypt(arg, key, legacy)
    [] impl = "v2r1" -> decryptV2_r1(arg, key, legacy)
    [] impl = "v2r2" -> decryptV2(arg, key, legacy)

-----------------------------------------------------------------------------
(* Key provisioning at module load. A configured value is a string, kept   *)
(* by what the decoders look at: its length, how many hex digits it        *)
(* starts with, how many '=' it ends with (the rest being base64           *)
(* characters); id names its content.                                      *)

NotSet == [set |-> FALSE]
Configured(chars, hexDigits, pad, id) ==
  [set |-> TRUE, chars |-> chars, hexDigits |-> hexDigits, pad |-> pad, id |-> id]

\* the key length of aes-256, in bytes
KeyBytes == 32

\* a configured key of 64 hex digits
DeploymentKey == Configured(64, 64, 0, 1)

\* Buffer.from(s, 'hex').length: pairs of hex digits up to the first
\* character that is not one
HexLength(v) == v.hexDigits \div 2

\* Buffer.from(s, 'base64').length
Base64Length(v) == ((v.chars - v.pad) * 3) \div 4

\* crypto.randomBytes(32), the n-th key drawn: a CSPRNG is taken not to
\* repeat, and not to hit a configured key
RandomKey(n) == [len |-> KeyBytes, src |-> "random", id |-> n + 2]

\* LoadKey drawing the same bytes at every start
LoadKey_sameRandom(v, n) ==
  IF v.set /\ v.chars > 0
  THEN [len |-> v.chars, src |-> "configured", id |-> v.id]
  ELSE RandomKey(0)

\* the controller: process.env.EMAIL_ENCRYPTION_KEY || crypto.randomBytes(32);
\* a configured non-empty string is the key as it is
LoadKey(v, n) ==
  IF v.set /\ v.chars > 0
  THEN [len |-> v.chars, src |-> "configured", id |-> v.id]
  ELSE RandomKey(n)

\* first revision of the helpers: process.env.CRYPTO_KEY || crypto.randomBytes(32)
LoadKeyV2_r1(v, n) ==
  IF v.set /\ v.chars > 0
  THEN [len |-> v.chars, src |-> "configured", id |-> v.id]
  ELSE RandomKey(n)

\* second revision: decoded as hex when it has 64 characters and as base64
\* otherwise, and replaced by random bytes unless 32 bytes came out
LoadKeyV2(v, n) ==
  IF v.set /\ v.chars > 0
  THEN LET length == IF v.chars = 64 THEN HexLength(v) ELSE Base64Length(v)
       IN  IF length # KeyBytes THEN RandomKey(n)
           ELSE [len |-> length, src |-> "configured", id |-> v.id]
  ELSE RandomKey(n)

LoadKeyOf(impl, v, n) ==
  CASE impl = "controller" -> LoadKey(v, n)
    [] impl = "v2r1" -> LoadKeyV2_r1(v, n)
    [] impl = "v2r2" -> LoadKeyV2(v, n)

-----------------------------------------------------------------------------
(* Experiments on the pure functions: one key and one plaintext per        *)
(* behaviour; encrypt of one module is called up to MaxEnc times, and what *)
(* it returned is decrypted (by any module: stored records outlive a       *)
(* revision) as it is, with its iv field replaced, or with one bit of its  *)
(* ciphertext or tag flipped; one decrypt call per behaviour.              *)

NoDec == [src |-> 0, impl |-> "none", tamper |-> "none", out |-> Null]

FlipBit(hex, pos, bit) ==
  LET bytes == HexDecode(hex)
  IN  HexEncode([i \in 1..Len(bytes) |->
                   IF i = pos THEN Xor(bytes[i], 2 ^ bit) ELSE bytes[i]])

\* the tracker never run, no shared link, no client paging
\* no command was run yet; last is the last of start and stop that succeeded
NoCommand == [cmd |-> "none", status |-> 0, clock |-> 0, last |-> "none"]
NoPager == [user |-> "none"]
ScriptsIdle ==
  /\ SESSION_FILE = Null
  /\ WORK_LOG_FILE = Null
  /\ shell = NoCommand
  /\ SharedLink = {}
  /\ pager = NoPager

CryptoInit ==
  /\ ENCRYPTION_KEY \in Keys
  /\ legacyCipher \in BOOLEAN
  /\ rng = 0
  /\ cImpl \in Impls
  /\ cText \in Strings
  /\ cEnc = <<>>
  /\ cDec = NoDec
  /\ now = 0
  /\ db = [u \in {"u1", "u2"} |-> [stored |-> FALSE]]
  /\ env = [by |-> "nobody"]
  /\ reqs = [r \in {"r1", "r2"} |-> [pc |-> "idle"]]
  /\ resp = [sent |-> FALSE]
  /\ lastSaved = [u \in {"u1", "u2"} |-> [saved |-> FALSE]]
  /\ pReq = [op |-> "none"]
  /\ pArgs = [kind |-> "null"]
  /\ mErr = [nodeEnv |-> "none"]
  /\ mRes = <<>>
  /\ CRYPTO_KEY = DeploymentKey
  /\ boots = 0
  /\ bootedAt = 0
  /\ kKey = [kind |-> "null"]
  /\ ScriptsIdle

EncryptCall ==
  /\ Len(cEnc) < MaxEnc
  /\ cEnc' = Append(cEnc, Encrypt(cImpl, cText, ENCRYPTION_KEY, rng, legacyCipher))
  /\ rng' = rng + 1
  /\ UNCHANGED <<ENCRYPTION_KEY, legacyCipher, cImpl, cText, cDec, svars, pvars, kvars, tvars, lvars>>

\* the encrypt calls that returned (a record or null)
Returned == {i \in 1..Len(cEnc) : cEnc[i].kind # "throw"}
\* the encrypt calls that returned a record
Records == {i \in 1..Len(cEnc) : cEnc[i].kind = "value"}

DecryptCall ==
  \E i \in Returned, impl \in Impls :
    /\ cDec = NoDec
    /\ cDec' = [src |-> i, impl |-> impl, tamper |-> "none",
                out |-> Decrypt(impl, cEnc[i], ENCRYPTION_KEY, legacyCipher)]
    /\ UNCHANGED <<ENCRYPTION_KEY, legacyCipher, rng, cImpl, cText, cEnc, svars, pvars, kvars, tvars, lvars>>

DecryptOtherIv ==
  \E i \in Records, impl \in Impls :
    LET data == [cEnc[i].val EXCEPT !.iv = HexEncode(RandomBytes(rng))]
    IN  /\ cDec = NoDec
        /\ cDec' = [src |-> i, impl |-> impl, tamper |-> "iv",
                    out |-> Decrypt(impl, Value(data), ENCRYPTION_KEY, legacyCipher)]
        /\ UNCHANGED <<ENCRYPTION_KEY, legacyCipher, rng, cImpl, cText, cEnc, svars, pvars, kvars, tvars, lvars>>

DecryptTampered ==
  \E i \in Records, impl \in Impls, field \in {"encrypted", "authTag"}, bit \in 0..7 :
    \E pos \in 1..(Len(cEnc[i].val[field]) \div 2) :
      LET data == [cEnc[i].val EXCEPT ![field] = FlipBit(@, pos, bit)]
      IN  /\ cDec = NoDec
          /\ cDec' = [src |-> i, impl |-> impl, tamper |-> field,
                      out |-> Decrypt(impl, Value(data), ENCRYPTION_KEY, legacyCipher)]
          /\ UNCHANGED <<ENCRYPTION_KEY, legacyCipher, rng, cImpl, cText, cEnc, svars, pvars, kvars, tvars, lvars>>

CryptoNext == EncryptCall \/ DecryptCall \/ DecryptOtherIv \/ DecryptTampered

CryptoSpec == CryptoInit /\ [][CryptoNext]_vars

-----------------------------------------------------------------------------
(* Request bodies. A JavaScript value carries its type; a number is kept   *)
(* as a fraction n/d so that Number.isInteger has something to decide.     *)

Undefined == [t |-> "undefined"]
JsNull == [t |-> "null"]
Str(x) == [t |-> "string", s |-> x]
Num(x) == [t |-> "number", n |-> x, d |-> 1]
Frac(x, y) == [t |-> "number", n |-> x, d |-> y]
Bool(x) == [t |-> "boolean", b |-> x]

\* the characters of the password strings of the model; "p{a-umlaut}{euro}"
\* stands for the three characters p, a-umlaut, euro sign
Chars(x) ==
  CASE x = "secret123" -> <<115, 101, 99, 114, 101, 116, 49, 50, 51>>
    [] x = "p{a-umlaut}{euro}" -> <<112, 228, 8364>>
    [] OTHER -> <<>>

Passwords == {"secret123", "p{a-umlaut}{euro}"}

\* the string a decrypted character sequence is ("" for the empty one; a
\* sequence that is no password of the model is named "{garbage}")
StringOf(cs) ==
  IF cs = <<>> THEN ""
  ELSE IF \E x \in Passwords : Chars(x) = cs
    THEN CHOOSE x \in Passwords : Chars(x) = cs
    ELSE "{garbage}"

Body(host, port, username, password, use_ssl) ==
  [host |-> host, port |-> port, username |-> username,
   password |-> password, use_ssl |-> use_ssl]

ScenarioBody ==
  Body(Str("imap.example.com"), Num(993), Str("a@example.com"), Str("secret123"), Bool(TRUE))

ValidBodies ==
  { ScenarioBody,
    Body(Str("mail.test"), Num(1), Str("b@test"), Str("p{a-umlaut}{euro}"), Bool(FALSE)),
    Body(Str("mail.test"), Num(65535), Str("a@example.com"), Str("secret123"), Undefined) }

InvalidBodies ==
  { [ScenarioBody EXCEPT !.host = Str("")],
    [ScenarioBody EXCEPT !.host = Num(7)],
    [ScenarioBody EXCEPT !.port = Num(0)],
    [ScenarioBody EXCEPT !.port = Num(65536)],
    [ScenarioBody EXCEPT !.port = Frac(3, 2)],
    [ScenarioBody EXCEPT !.port = Str("993")],
    [ScenarioBody EXCEPT !.username = Str("")],
    [ScenarioBody EXCEPT !.password = Str("")],
    [ScenarioBody EXCEPT !.password = Undefined],
    [ScenarioBody EXCEPT !.use_ssl = Str("yes")],
    [ScenarioBody EXCEPT !.host = Str(""), !.password = Str("")] }

Bodies == ValidBodies \cup InvalidBodies

\* !x || typeof x !== 'string'
NotAString(x) == x.t # "string" \/ x.s = ""

\* !port || !Number.isInteger(port) || port < 1 || port > 65535
NotAPort(x) ==
  \/ x.t # "number"
  \/ x.n % x.d # 0
  \/ x.n \div x.d < 1
  \/ x.n \div x.d > 65535

HostMsg == "Valid IMAP host is required"
PortMsg == "Valid IMAP port is required (1-65535)"
UsernameMsg == "Valid username/email is required"
PasswordMsg == "Password is required"
UseSslMsg == "use_ssl must be a boolean value"

\* validateCredentials with the port test reduced to !port || !Number.isInteger(port)
validateCredentials_noRange(c) ==
  IF NotAString(c.host) THEN HostMsg
  ELSE IF c.port.t # "number" \/ c.port.n % c.port.d # 0 \/ c.port.n = 0 THEN PortMsg
  ELSE IF NotAString(c.username) THEN UsernameMsg
  ELSE IF NotAString(c.password) THEN PasswordMsg
  ELSE IF c.use_ssl.t \notin {"undefined", "boolean"} THEN UseSslMsg
  ELSE "ok"

\* validateCredentials: "ok" when it returns true, else the message of the
\* Error it throws
validateCredentials(c) ==
  IF NotAString(c.host) THEN HostMsg
  ELSE IF NotAPort(c.port) THEN PortMsg
  ELSE IF NotAString(c.username) THEN UsernameMsg
  ELSE IF NotAString(c.password) THEN PasswordMsg
  ELSE IF c.use_ssl.t \notin {"undefined", "boolean"} THEN UseSslMsg
  ELSE "ok"

\* an Error object: its name and its message
Err(name, message) == [name |-> name, message |-> message]

RECURSIVE Digits(_)
Digits(n) == IF n < 10 THEN <<n>> ELSE Append(Digits(n \div 10), n % 10)

\* Number.prototype.toString of a positive integer: its decimal digits
toString(n) == Digits(n)

\* x ? 'true' : 'false' for a use_ssl value (undefined is falsy)
TruthyString(x) == IF x.t = "boolean" /\ x.b THEN "true" ELSE "false"

-----------------------------------------------------------------------------
(* The server: users, the stored emailConfig, process.env, and requests.   *)

Registered == {"u1", "u2"}
\* "u0" holds a valid token but has no user document
Users == Registered \cup {"u0"}
Reqs == {"r1", "r2"}
ToolOps == {"folders", "fetch", "summarize", "categorize"}

NoConfig == [stored |-> FALSE]
HasConfig(c) == "host" \in DOMAIN c
NoBody == [saved |-> FALSE]
NoResp == [sent |-> FALSE]
Idle == [pc |-> "idle"]
Unset == [by |-> "nobody"]
EnvSet(e) == "IMAP_HOST" \in DOMAIN e

\* a request that suspends at an await takes the first slot no suspended
\* request holds
Free(r) == reqs[r].pc = "idle" /\ \A q \in Reqs : reqs[q].pc = "idle" => q \in {r, "r2"}

\* the five assignments to process.env.IMAP_* of a handler, made without an
\* await between them; by: the request's user (not part of process.env)
SetEnv(host, port, username, password, use_ssl, by) ==
  [IMAP_HOST |-> host, IMAP_PORT |-> port, IMAP_USERNAME |-> username,
   IMAP_PASSWORD |-> password, IMAP_USE_SSL |-> use_ssl, by |-> by]

\* the middleware without its EmailAuthError branch
ErrorMiddleware_noAuth(error, nodeEnv) ==
  CASE error.name = "ValidationError" ->
         [status |-> 400,
          json |-> [success |-> FALSE, error |-> "Invalid input data",
                    details |-> error.message]]
    [] error.name = "EmailConnectionError" ->
         [status |-> 503,
          json |-> [success |-> FALSE, error |-> "Failed to connect to email server",
                    details |-> error.message]]
    [] error.name = "MCPToolError" ->
         [status |-> 500,
          json |-> [success |-> FALSE, error |-> "Email processing service error",
                    details |-> error.message]]
    [] OTHER ->
         [status |-> 500,
          json |-> [success |-> FALSE, error |-> "Internal server error",
                    details |-> IF nodeEnv = "development" THEN error.message
                                ELSE "Something went wrong"]]

\* the router's error-handling middleware: status and JSON body for an error
ErrorMiddleware(error, nodeEnv) ==
  CASE error.name = "ValidationError" ->
         [status |-> 400,
          json |-> [success |-> FALSE, error |-> "Invalid input data",
                    details |-> error.message]]
    [] error.name = "EmailConnectionError" ->
         [status |-> 503,
          json |-> [success |-> FALSE, error |-> "Failed to connect to email server",
                    details |-> error.message]]
    [] error.name = "EmailAuthError" ->
         [status |-> 401,
          json |-> [success |-> FALSE, error |-> "Email authentication failed",
                    details |-> "Please check your IMAP credentials and try again"]]
    [] error.name = "MCPToolError" ->
         [status |-> 500,
          json |-> [success |-> FALSE, error |-> "Email processing service error",
                    details |-> error.message]]
    [] OTHER ->
         [status |-> 500,
          json |-> [success |-> FALSE, error |-> "Internal server error",
                    details |-> IF nodeEnv = "development" THEN error.message
                                ELSE "Something went wrong"]]

\* what one step sent: res.status(..).json(..) of a handler, or next(error)
\* answered by the middleware. input: the request body of a save or test;
\* saw: the IMAP_* values the tool read for this request; nexts: the errors
\* handed to next for the request; sends: the res.json calls made for it.
Sent(user, op, status, json, error, input, saw, nexts, sends) ==
  [sent |-> TRUE, user |-> user, op |-> op, status |-> status, json |-> json,
   error |-> error, input |-> input, saw |-> saw, nexts |-> nexts, sends |-> sends]

NoErr == Err("", "")

\* process.env.NODE_ENV, which the middleware reads at each error: set by the
\* deployment, any of these
NodeEnvs == {"development", "production"}

\* next(error) of a handler whose catch throws the error on after it: the
\* route's catch hands it to next again
Failed_rethrow(user, op, error, input, saw) ==
  {Sent(user, op, m.status, m.json, error, input, saw, 2, 2) :
     m \in {ErrorMiddleware(error, nodeEnv) : nodeEnv \in NodeEnvs}}

\* the responses next(error) can end in: the handler's catch calls next once
\* and returns, so the route's own catch has nothing to forward, and the
\* middleware sends one response
Failed(user, op, error, input, saw) ==
  {Sent(user, op, m.status, m.json, error, input, saw, 1, 1) :
     m \in {ErrorMiddleware(error, nodeEnv) : nodeEnv \in NodeEnvs}}

\* the handler's own res.status(200).json(..), the last statement of its try
Ok(user, op, json, input, saw) ==
  Sent(user, op, 200, json, NoErr, input, saw, 0, 1)

\* the message of an error thrown below the handlers
Message(name) ==
  CASE name = "EmailAuthError" -> "No email credentials found for user"
    [] name = "TypeError" -> "crypto.createCipher is not a function"
    [] name = "MCPToolError" -> "tool call failed"
    [] OTHER -> "Unsupported state or unable to authenticate data"

\* User.findById(userId): the user's document (its emailConfig), null for a
\* user without a document
FindById(u) == IF u \in Registered THEN Value(db[u]) ELSE Null

\* EmailConfig keeping the request's password beside the encrypted one
EmailConfig_plain(credentials, encryptedPassword, date) ==
  [host |-> credentials.host.s,
   port |-> credentials.port.n \div credentials.port.d,
   username |-> credentials.username.s,
   password |-> credentials.password.s,
   use_ssl |-> ~(credentials.use_ssl.t = "boolean" /\ ~credentials.use_ssl.b),
   encrypted_password |-> encryptedPassword,
   created_at |-> date,
   updated_at |-> date]

\* EmailConfig with use_ssl: use_ssl || true in place of use_ssl !== false
EmailConfig_sslOrTrue(credentials, encryptedPassword, date) ==
  [host |-> credentials.host.s,
   port |-> credentials.port.n \div credentials.port.d,
   username |-> credentials.username.s,
   use_ssl |-> TRUE,
   encrypted_password |-> encryptedPassword,
   created_at |-> date,
   updated_at |-> date]

\* the emailConfig object saveEmailCredentials builds
EmailConfig(credentials, encryptedPassword, date) ==
  [host |-> credentials.host.s,
   port |-> credentials.port.n \div credentials.port.d,
   username |-> credentials.username.s,
   use_ssl |-> ~(credentials.use_ssl.t = "boolean" /\ ~credentials.use_ssl.b),
   encrypted_password |-> encryptedPassword,
   created_at |-> date,
   updated_at |-> date]

\* saveEmailCredentials when validateCredentials throws: the catch hands the
\* Error to next in the same step
saveEmailCredentials_reject(u, body) ==
  /\ validateCredentials(body) # "ok"
  /\ resp' \in Failed(u, "save", Err("Error", validateCredentials(body)), body, Unset)
  /\ UNCHANGED <<ENCRYPTION_KEY, legacyCipher, rng, cvars, pvars, kvars, tvars, lvars, now, db, env, reqs, lastSaved>>

\* saveEmailCredentials up to its await, for a body validateCredentials
\* accepts: encrypt, the emailConfig object; a throw of encrypt goes to
\* next(error) in the same step
saveEmailCredentials(r, u, body) ==
  /\ validateCredentials(body) = "ok"
  /\ Free(r)
  /\ rng < MaxSaves
  /\ rng' = rng + 1
  /\ LET enc == encrypt(Chars(body.password.s), ENCRYPTION_KEY, rng, legacyCipher) IN
     IF enc.kind = "throw"
     THEN /\ resp' \in Failed(u, "save", Err(enc.name, Message(enc.name)), body, Unset)
          /\ UNCHANGED <<now, reqs>>
     ELSE /\ reqs' = [reqs EXCEPT ![r] =
                        [pc |-> "db", user |-> u, op |-> "save", body |-> body,
                         emailConfig |-> EmailConfig(body, enc.val, now)]]
          /\ now' = now + 1
          /\ resp' = NoResp
  /\ UNCHANGED <<ENCRYPTION_KEY, legacyCipher, cvars, pvars, kvars, tvars, lvars, db, env, lastSaved>>

\* saveEmailCredentials_update writing emailConfig only where none is stored
\* (as a $setOnInsert would)
saveEmailCredentials_update_keepFirst(r) ==
  /\ reqs[r].pc = "db"
  /\ LET u == reqs[r].user
         body == reqs[r].body
     IN  IF u \in Registered
         THEN /\ db' = [db EXCEPT ![u] = IF HasConfig(@) THEN @ ELSE reqs[r].emailConfig]
              /\ lastSaved' = [lastSaved EXCEPT ![u] = body]
              /\ resp' = Ok(u, "save",
                            [success |-> TRUE,
                             message |-> "Email credentials saved successfully",
                             hasCredentials |-> TRUE],
                            body, Unset)
         ELSE /\ resp' \in Failed(u, "save", Err("ValidationError", "User not found"),
                                body, Unset)
              /\ UNCHANGED <<db, lastSaved>>
  /\ reqs' = [reqs EXCEPT ![r] = Idle]
  /\ UNCHANGED <<ENCRYPTION_KEY, legacyCipher, rng, cvars, pvars, kvars, tvars, lvars, now, env>>

\* saveEmailCredentials from User.findByIdAndUpdate(userId, {$set: {emailConfig}})
\* on: the update, then the response
saveEmailCredentials_update(r) ==
  /\ reqs[r].pc = "db"
  /\ LET u == reqs[r].user
         body == reqs[r].body
     IN  IF u \in Registered
         THEN /\ db' = [db EXCEPT ![u] = reqs[r].emailConfig]
              /\ lastSaved' = [lastSaved EXCEPT ![u] = body]
              /\ resp' = Ok(u, "save",
                            [success |-> TRUE,
                             message |-> "Email credentials saved successfully",
                             hasCredentials |-> TRUE],
                            body, Unset)
         ELSE /\ resp' \in Failed(u, "save", Err("ValidationError", "User not found"),
                                body, Unset)
              /\ UNCHANGED <<db, lastSaved>>
  /\ reqs' = [reqs EXCEPT ![r] = Idle]
  /\ UNCHANGED <<ENCRYPTION_KEY, legacyCipher, rng, cvars, pvars, kvars, tvars, lvars, now, env>>

\* getEmailCredentials without the select(..): the whole emailConfig is returned
getEmailCredentials_unselected(u) ==
  /\ LET user == FindById(u) IN
     IF user.kind = "null" \/ ~HasConfig(user.val)
     THEN resp' = Ok(u, "get",
                     [success |-> TRUE, hasCredentials |-> FALSE, config |-> JsNull],
                     NoBody, Unset)
     ELSE resp' = Ok(u, "get",
                     [success |-> TRUE, hasCredentials |-> TRUE, config |-> user.val],
                     NoBody, Unset)
  /\ UNCHANGED <<ENCRYPTION_KEY, legacyCipher, rng, cvars, pvars, kvars, tvars, lvars,
                 now, db, env, reqs, lastSaved>>

\* getEmailCredentials: User.findById(..).select(host, port, username, use_ssl,
\* created_at of emailConfig), then the response
getEmailCredentials(u) ==
  /\ LET user == FindById(u) IN
     IF user.kind = "null" \/ ~HasConfig(user.val)
     THEN resp' = Ok(u, "get",
                     [success |-> TRUE, hasCredentials |-> FALSE, config |-> JsNull],
                     NoBody, Unset)
     ELSE resp' = Ok(u, "get",
                     [success |-> TRUE, hasCredentials |-> TRUE,
                      config |-> [host |-> user.val.host,
                                  port |-> user.val.port,
                                  username |-> user.val.username,
                                  use_ssl |-> user.val.use_ssl,
                                  created_at |-> user.val.created_at]],
                     NoBody, Unset)
  /\ UNCHANGED <<ENCRYPTION_KEY, legacyCipher, rng, cvars, pvars, kvars, tvars, lvars,
                 now, db, env, reqs, lastSaved>>

\* deleteEmailCredentials answering with an error when nothing is stored
deleteEmailCredentials_strict(u) ==
  /\ IF u \in Registered /\ HasConfig(db[u])
     THEN /\ db' = [db EXCEPT ![u] = NoConfig]
          /\ lastSaved' = [lastSaved EXCEPT ![u] = NoBody]
          /\ resp' = Ok(u, "delete",
                        [success |-> TRUE,
                         message |-> "Email credentials deleted successfully"],
                        NoBody, Unset)
     ELSE /\ UNCHANGED <<db, lastSaved>>
          /\ resp' \in Failed(u, "delete",
                              Err("ValidationError", "No email credentials found for user"),
                              NoBody, Unset)
  /\ UNCHANGED <<ENCRYPTION_KEY, legacyCipher, rng, cvars, pvars, kvars, tvars, lvars, now, env, reqs>>

\* deleteEmailCredentials: User.findByIdAndUpdate(userId, {$unset: {emailConfig: 1}}),
\* then the response
deleteEmailCredentials(u) ==
  /\ IF u \in Registered
     THEN /\ db' = [db EXCEPT ![u] = NoConfig]
          /\ lastSaved' = [lastSaved EXCEPT ![u] = NoBody]
     ELSE UNCHANGED <<db, lastSaved>>
  /\ resp' = Ok(u, "delete",
                [success |-> TRUE, message |-> "Email credentials deleted successfully"],
                NoBody, Unset)
  /\ UNCHANGED <<ENCRYPTION_KEY, legacyCipher, rng, cvars, pvars, kvars, tvars, lvars, now, env, reqs>>

\* getDecryptedCredentials looking the record up without the user id
\* (User.findOne on any user that has an emailConfig)
getDecryptedCredentials_anyUser(u) ==
  LET holders == {v \in Registered : HasConfig(db[v])}
      user == IF holders = {} THEN Null ELSE Value(db[CHOOSE v \in holders : TRUE])
  IN
  IF user.kind = "null" \/ ~HasConfig(user.val)
  THEN Throw("EmailAuthError")
  ELSE LET config == user.val
           decryptedPassword == decrypt(Value(config.encrypted_password),
                                        ENCRYPTION_KEY, legacyCipher)
       IN  IF decryptedPassword.kind = "throw" THEN decryptedPassword
           ELSE Value([host |-> config.host, port |-> config.port,
                       username |-> config.username,
                       password |-> StringOf(decryptedPassword.val),
                       use_ssl |-> config.use_ssl])

\* getDecryptedCredentials throwing an unnamed Error when nothing is stored
getDecryptedCredentials_unnamed(u) ==
  LET user == FindById(u) IN
  IF user.kind = "null" \/ ~HasConfig(user.val)
  THEN Throw("Error")
  ELSE LET config == user.val
           decryptedPassword == decrypt(Value(config.encrypted_password),
                                        ENCRYPTION_KEY, legacyCipher)
       IN  IF decryptedPassword.kind = "throw" THEN decryptedPassword
           ELSE Value([host |-> config.host, port |-> config.port,
                       username |-> config.username,
                       password |-> StringOf(decryptedPassword.val),
                       use_ssl |-> config.use_ssl])

\* getDecryptedCredentials going on with a null password when decrypt fails
\* (as a decrypt that catches its errors and returns null would make it)
getDecryptedCredentials_nullOnFail(u) ==
  LET user == FindById(u) IN
  IF user.kind = "null" \/ ~HasConfig(user.val)
  THEN Throw("EmailAuthError")
  ELSE LET config == user.val
           decryptedPassword == decrypt(Value(config.encrypted_password),
                                        ENCRYPTION_KEY, legacyCipher)
       IN  Value([host |-> config.host, port |-> config.port,
                  username |-> config.username,
                  password |-> IF decryptedPassword.kind = "throw" THEN "null"
                               ELSE StringOf(decryptedPassword.val),
                  use_ssl |-> config.use_ssl])

\* getDecryptedCredentials(userId): the credentials with the decrypted
\* password, or the error thrown
getDecryptedCredentials(u) ==
  LET user == FindById(u) IN
  IF user.kind = "null" \/ ~HasConfig(user.val)
  THEN Throw("EmailAuthError")
  ELSE LET config == user.val
           decryptedPassword == decrypt(Value(config.encrypted_password),
                                        ENCRYPTION_KEY, legacyCipher)
       IN  IF decryptedPassword.kind = "throw" THEN decryptedPassword
           ELSE Value([host |-> config.host, port |-> config.port,
                       username |-> config.username,
                       password |-> StringOf(decryptedPassword.val),
                       use_ssl |-> config.use_ssl])

\* getEmailFolders / fetchEmails / summarizeEmails / categorizeEmails (op:
\* which of the four) when await getDecryptedCredentials(userId) throws: the
\* catch hands the error to next
emailOperation_throw(u) ==
  LET credentials == getDecryptedCredentials(u) IN
  /\ credentials.kind = "throw"
  /\ \E op \in ToolOps :
       resp' \in Failed(u, op, Err(credentials.name, Message(credentials.name)),
                        NoBody, Unset)
  /\ UNCHANGED <<ENCRYPTION_KEY, legacyCipher, rng, cvars, pvars, kvars, tvars, lvars, now, db, env, reqs, lastSaved>>

\* the same handlers up to the return of await getDecryptedCredentials(userId)
emailOperation(r, u) ==
  /\ Free(r)
  /\ LET credentials == getDecryptedCredentials(u) IN
     /\ credentials.kind = "value"
     /\ \E op \in ToolOps :
          reqs' = [reqs EXCEPT ![r] =
                     [pc |-> "loaded", user |-> u, op |-> op,
                      credentials |-> credentials.val]]
  /\ resp' = NoResp
  /\ UNCHANGED <<ENCRYPTION_KEY, legacyCipher, rng, cvars, pvars, kvars, tvars, lvars, now, db, env, lastSaved>>

\* req.body of an e-mail operation: the fields the handlers destructure
Params(folder, days, limit, summary_type, unread_only) ==
  [folder |-> folder, days |-> days, limit |-> limit,
   summary_type |-> summary_type, unread_only |-> unread_only]

\* a body with none of them
NoParams == Params(Undefined, Undefined, Undefined, Undefined, Undefined)

NaN == [t |-> "NaN"]

\* the integer a string of the model starts with, if any (after white space)
IntPrefix(x) ==
  CASE x = "14" -> Num(14)
    [] x = "2" -> Num(2)
    [] x = "25" -> Num(25)
    [] x = "3 days" -> Num(3)
    [] OTHER -> NaN

\* parseInt(x): x as a string, then the integer it starts with; a number's
\* fraction is cut off, and null, booleans and other strings give NaN
ParseInt(x) ==
  CASE x.t = "number" ->
         Num(IF x.n >= 0 THEN x.n \div x.d ELSE 0 - ((0 - x.n) \div x.d))
    [] x.t = "string" -> IntPrefix(x.s)
    [] OTHER -> NaN

\* Boolean(x)
ToBoolean(x) ==
  CASE x.t = "boolean" -> Bool(x.b)
    [] x.t = "string" -> Bool(x.s # "")
    [] x.t = "number" -> Bool(x.n # 0)
    [] OTHER -> Bool(FALSE)

\* a destructuring default: it applies to a missing or undefined field only
Default(x, d) == IF x = Undefined THEN d ELSE x

\* the tool each handler names in its callTool
ToolName(op) ==
  CASE op \in {"test", "folders"} -> "list_folders"
    [] op = "fetch" -> "fetch_recent_emails"
    [] op = "summarize" -> "summarize_emails"
    [] op = "categorize" -> "categorize_emails"

\* the arguments object each handler passes to callTool ({} is <<>>)
ToolArgs(op, body) ==
  CASE op \in {"test", "folders"} -> <<>>
    [] op = "fetch" ->
         [folder |-> Default(body.folder, Str("INBOX")),
          days |-> ParseInt(Default(body.days, Num(7))),
          limit |-> ParseInt(Default(body.limit, Num(50))),
          unread_only |-> ToBoolean(Default(body.unread_only, Bool(FALSE)))]
    [] op = "summarize" ->
         [folder |-> Default(body.folder, Str("INBOX")),
          days |-> ParseInt(Default(body.days, Num(7))),
          limit |-> ParseInt(Default(body.limit, Num(50))),
          summary_type |-> Default(body.summary_type, Str("brief")),
          unread_only |-> ToBoolean(Default(body.unread_only, Bool(FALSE)))]
    [] op = "categorize" ->
         [folder |-> Default(body.folder, Str("INBOX")),
          days |-> ParseInt(Default(body.days, Num(7))),
          limit |-> ParseInt(Default(body.limit, Num(100)))]

\* emailOperation_callTool assigning process.env.IMAP_* only while they are unset
emailOperation_callTool_keepSet(r) ==
  /\ reqs[r].pc = "loaded"
  /\ LET c == reqs[r].credentials
         e == SetEnv(c.host, toString(c.port), c.username, c.password,
                     IF c.use_ssl THEN "true" ELSE "false", reqs[r].user)
     IN  /\ env' = IF EnvSet(env) THEN env ELSE e
         /\ reqs' = [reqs EXCEPT ![r] =
                       [pc |-> "called", user |-> reqs[r].user, op |-> reqs[r].op,
                        body |-> NoBody, own |-> e, tool |-> ToolName(reqs[r].op),
                        args |-> ToolArgs(reqs[r].op, NoParams), calls |-> 1]]
  /\ resp' = NoResp
  /\ UNCHANGED <<ENCRYPTION_KEY, legacyCipher, rng, cvars, pvars, kvars, tvars, lvars, now, db, lastSaved>>

\* emailOperation_callTool suspended after its first and third assignment:
\* host and username are the request's, the rest is what was there
emailOperation_callTool_partial(r) ==
  /\ reqs[r].pc = "loaded"
  /\ LET c == reqs[r].credentials
         e == SetEnv(c.host, toString(c.port), c.username, c.password,
                     IF c.use_ssl THEN "true" ELSE "false", reqs[r].user)
         mixed == IF EnvSet(env)
                  THEN [env EXCEPT !.IMAP_HOST = c.host, !.IMAP_USERNAME = c.username]
                  ELSE e
     IN  /\ env' = mixed
         /\ reqs' = [reqs EXCEPT ![r] =
                       [pc |-> "called", user |-> reqs[r].user, op |-> reqs[r].op,
                        body |-> NoBody, own |-> e, tool |-> ToolName(reqs[r].op),
                        args |-> ToolArgs(reqs[r].op, NoParams), calls |-> 1]]
  /\ resp' = NoResp
  /\ UNCHANGED <<ENCRYPTION_KEY, legacyCipher, rng, cvars, pvars, kvars, tvars, lvars, now, db, lastSaved>>

\* the same handlers from there to await callTool(..): the five process.env
\* assignments and the call (calls: the callTool invocations of the request)
emailOperation_callTool(r) ==
  /\ reqs[r].pc = "loaded"
  /\ LET c == reqs[r].credentials
         e == SetEnv(c.host, toString(c.port), c.username, c.password,
                     IF c.use_ssl THEN "true" ELSE "false", reqs[r].user)
     IN  /\ env' = e
         /\ reqs' = [reqs EXCEPT ![r] =
                       [pc |-> "called", user |-> reqs[r].user, op |-> reqs[r].op,
                        body |-> NoBody, own |-> e, tool |-> ToolName(reqs[r].op),
                        args |-> ToolArgs(reqs[r].op, NoParams), calls |-> 1]]
  /\ resp' = NoResp
  /\ UNCHANGED <<ENCRYPTION_KEY, legacyCipher, rng, cvars, pvars, kvars, tvars, lvars, now, db, lastSaved>>

\* testEmailConnection making the process.env assignments before it validates
testEmailConnection_reject_envFirst(u, body) ==
  /\ validateCredentials(body) # "ok"
  /\ env' = SetEnv(body.host.s, toString(body.port.n \div body.port.d),
                   body.username.s, body.password.s,
                   TruthyString(body.use_ssl), u)
  /\ resp' \in Failed(u, "test",
                      Err("EmailConnectionError", "Failed to connect to email server"),
                      body, Unset)
  /\ UNCHANGED <<ENCRYPTION_KEY, legacyCipher, rng, cvars, pvars, kvars, tvars, lvars, now, db, reqs, lastSaved>>

\* testEmailConnection when validateCredentials throws: the handler's catch
\* hands a new EmailConnectionError to next
testEmailConnection_reject(u, body) ==
  /\ validateCredentials(body) # "ok"
  /\ resp' \in Failed(u, "test",
                      Err("EmailConnectionError", "Failed to connect to email server"),
                      body, Unset)
  /\ UNCHANGED <<ENCRYPTION_KEY, legacyCipher, rng, cvars, pvars, kvars, tvars, lvars, now, db, env, reqs, lastSaved>>

\* testEmailConnection connecting with the stored credentials where the user
\* has some
testEmailConnection_stored(r, u, body) ==
  /\ validateCredentials(body) = "ok"
  /\ Free(r)
  /\ LET c == IF u \in Registered /\ HasConfig(db[u])
              THEN [host |-> db[u].host, username |-> db[u].username]
              ELSE [host |-> body.host.s, username |-> body.username.s]
         e == SetEnv(c.host, toString(body.port.n \div body.port.d),
                     c.username, body.password.s,
                     TruthyString(body.use_ssl), u)
     IN  /\ env' = e
         /\ reqs' = [reqs EXCEPT ![r] =
                       [pc |-> "called", user |-> u, op |-> "test",
                        body |-> body, own |-> e, tool |-> ToolName("test"),
                        args |-> ToolArgs("test", NoParams), calls |-> 1]]
  /\ resp' = NoResp
  /\ UNCHANGED <<ENCRYPTION_KEY, legacyCipher, rng, cvars, pvars, kvars, tvars, lvars, now, db, lastSaved>>

\* testEmailConnection up to await callTool('list_folders', ..), for a body
\* validateCredentials accepts: the five process.env assignments and the call
testEmailConnection(r, u, body) ==
  /\ validateCredentials(body) = "ok"
  /\ Free(r)
  /\ LET e == SetEnv(body.host.s, toString(body.port.n \div body.port.d),
                     body.username.s, body.password.s,
                     TruthyString(body.use_ssl), u)
     IN  /\ env' = e
         /\ reqs' = [reqs EXCEPT ![r] =
                       [pc |-> "called", user |-> u, op |-> "test",
                        body |-> body, own |-> e, tool |-> ToolName("test"),
                        args |-> ToolArgs("test", NoParams), calls |-> 1]]
  /\ resp' = NoResp
  /\ UNCHANGED <<ENCRYPTION_KEY, legacyCipher, rng, cvars, pvars, kvars, tvars, lvars, now, db, lastSaved>>

\* the MCP tool server: it connects with the IMAP_* values it finds in the
\* environment when it runs, and answers for that mailbox or fails
ToolOutcomes == {"ok", "MCPToolError", "Error"}
Mailbox(e) == <<e.IMAP_HOST, e.IMAP_USERNAME>>
\* the IMAP_* values the tool finds: those of process.env when the call completes
ToolEnvironment == env

\* the JSON a handler sends for a tool result
ToolJson(op, result) ==
  CASE op \in {"test"} ->
         [success |-> TRUE, message |-> "Email connection successful", folders |-> result]
    [] op = "folders" -> [success |-> TRUE, folders |-> result]
    [] op = "fetch" -> [success |-> TRUE, emails |-> result, count |-> Len(result)]
    [] op = "summarize" -> [success |-> TRUE, summary |-> result]
    [] op = "categorize" -> [success |-> TRUE, categories |-> result]

\* the handlers calling the tool a second time when the first call throws
callTool_done_retry(r) ==
  /\ reqs[r].pc = "called"
  /\ \E outcome \in ToolOutcomes :
       LET u == reqs[r].user
           op == reqs[r].op
       IN  IF outcome = "ok"
           THEN /\ resp' = Ok(u, op, ToolJson(op, Mailbox(ToolEnvironment)),
                              reqs[r].body, ToolEnvironment)
                /\ reqs' = [reqs EXCEPT ![r] = Idle]
           ELSE IF reqs[r].calls < 2
           THEN /\ resp' = NoResp
                /\ reqs' = [reqs EXCEPT ![r].calls = reqs[r].calls + 1]
           ELSE /\ resp' \in Failed(u, op, Err(outcome, Message(outcome)),
                                    reqs[r].body, ToolEnvironment)
                /\ reqs' = [reqs EXCEPT ![r] = Idle]
  /\ UNCHANGED <<ENCRYPTION_KEY, legacyCipher, rng, cvars, pvars, kvars, tvars, lvars, now, db, env, lastSaved>>

\* a handler from the completion of await callTool(..) on: the tool has read
\* the environment and returned or thrown; the handler responds, or its catch
\* hands the error to next (testEmailConnection: a new EmailConnectionError),
\* and the request is over
callTool_done(r) ==
  /\ reqs[r].pc = "called"
  /\ \E outcome \in ToolOutcomes :
       LET u == reqs[r].user
           op == reqs[r].op
       IN  IF outcome = "ok"
           THEN resp' = Ok(u, op, ToolJson(op, Mailbox(ToolEnvironment)),
                            reqs[r].body, ToolEnvironment)
           ELSE IF op = "test"
           THEN resp' \in Failed(u, op,
                               Err("EmailConnectionError", "Failed to connect to email server"),
                               reqs[r].body, ToolEnvironment)
           ELSE resp' \in Failed(u, op, Err(outcome, Message(outcome)),
                               reqs[r].body, ToolEnvironment)
  /\ reqs' = [reqs EXCEPT ![r] = Idle]
  /\ UNCHANGED <<ENCRYPTION_KEY, legacyCipher, rng, cvars, pvars, kvars, tvars, lvars, now, db, env, lastSaved>>

\* the process after start-up: one deployment key (the handlers never branch
\* on its value), no credentials stored, no request in flight
ServerInit ==
  /\ ENCRYPTION_KEY = 1
  /\ legacyCipher \in BOOLEAN
  /\ rng = 0
  /\ cImpl = "controller"
  /\ cText = <<>>
  /\ cEnc = <<>>
  /\ cDec = NoDec
  /\ now = 0
  /\ db = [u \in Registered |-> NoConfig]
  /\ env = Unset
  /\ reqs = [r \in Reqs |-> Idle]
  /\ resp = NoResp
  /\ lastSaved = [u \in Registered |-> NoBody]
  /\ CRYPTO_KEY = DeploymentKey
  /\ boots = 0
  /\ bootedAt = 0
  /\ kKey = Null

NoParamReq == [op |-> "none"]
NoError == [nodeEnv |-> "none"]

Init ==
  /\ ServerInit
  /\ ScriptsIdle
  /\ pReq = NoParamReq
  /\ pArgs = Null
  /\ mErr = NoError
  /\ mRes = <<>>

\* the credential store: save, get and delete requests of any user, with any
\* body (a body that fails validation is rejected before the user is looked
\* up: registered users send those), two saves at most suspended at the same
\* time
StoreNext ==
  \/ \E u \in Registered, body \in Bodies : saveEmailCredentials_reject(u, body)
  \/ \E r \in Reqs, u \in Users, body \in Bodies : saveEmailCredentials(r, u, body)
  \/ \E r \in Reqs : saveEmailCredentials_update(r)
  \/ \E u \in Users : getEmailCredentials(u)
  \/ \E u \in Users : deleteEmailCredentials(u)

StoreSpec == Init /\ [][StoreNext]_vars

\* the credentials each user saves while e-mail operations run, and the
\* ones a connection test supplies
OtherBody == Body(Str("mail.test"), Num(1), Str("b@test"), Str("p{a-umlaut}{euro}"), Bool(FALSE))
ProbeBody == Body(Str("mail.test"), Num(65535), Str("a@example.com"), Str("secret123"), Undefined)
OwnBody(u) == IF u = "u1" THEN ScenarioBody ELSE OtherBody
BadProbe == [ScenarioBody EXCEPT !.port = Num(0)]

\* the e-mail operations beside the store: each registered user saves, reads
\* and deletes credentials of their own and tests a connection, any user calls
\* the four e-mail operations, and one user sends the save and the connection
\* test that fail validation (both are rejected before the user is looked at);
\* two requests at most are suspended at the same time
Next ==
  \/ saveEmailCredentials_reject("u1", BadProbe)
  \/ \E r \in Reqs, u \in Registered : saveEmailCredentials(r, u, OwnBody(u))
  \/ \E r \in Reqs : saveEmailCredentials_update(r)
  \/ \E u \in Registered : getEmailCredentials(u)
  \/ \E u \in Registered : deleteEmailCredentials(u)
  \/ \E u \in Users : emailOperation_throw(u)
  \/ \E r \in Reqs, u \in Users : emailOperation(r, u)
  \/ \E r \in Reqs : emailOperation_callTool(r)
  \/ testEmailConnection_reject("u1", BadProbe)
  \/ \E r \in Reqs, u \in Registered : testEmailConnection(r, u, ProbeBody)
  \/ \E r \in Reqs : callTool_done(r)

Spec == Init /\ [][Next]_vars


-----------------------------------------------------------------------------
(* The process across restarts: the user collection outlives the process,  *)
(* the key is provisioned anew at each start, and process.env and the      *)
(* requests in flight are gone. One user saves and runs tool operations.   *)

\* most restarts of one behaviour
MaxRestarts == 2

\* the deployment: an encryption key configured, or none
RestartInit ==
  /\ CRYPTO_KEY \in {NotSet, DeploymentKey}
  /\ ENCRYPTION_KEY = LoadKey(CRYPTO_KEY, 0).id
  /\ legacyCipher \in BOOLEAN
  /\ rng = 0
  /\ cImpl = "controller"
  /\ cText = <<>>
  /\ cEnc = <<>>
  /\ cDec = NoDec
  /\ now = 0
  /\ db = [u \in Registered |-> NoConfig]
  /\ env = Unset
  /\ reqs = [r \in Reqs |-> Idle]
  /\ resp = NoResp
  /\ lastSaved = [u \in Registered |-> NoBody]
  /\ boots = 0
  /\ bootedAt = 0
  /\ kKey = Null
  /\ ScriptsIdle
  /\ pReq = NoParamReq
  /\ pArgs = Null
  /\ mErr = NoError
  /\ mRes = <<>>

\* the process stops and starts again: the module is loaded anew (its
\* ENCRYPTION_KEY is provisioned again), process.env is the deployment's
\* again, and the requests that were suspended are lost
Restart ==
  /\ boots < MaxRestarts
  /\ boots' = boots + 1
  /\ bootedAt' = now
  /\ ENCRYPTION_KEY' = LoadKey(CRYPTO_KEY, boots + 1).id
  /\ env' = Unset
  /\ reqs' = [r \in Reqs |-> Idle]
  /\ resp' = NoResp
  /\ UNCHANGED <<legacyCipher, rng, cvars, pvars, tvars, lvars, CRYPTO_KEY, kKey, now, db,
                 lastSaved>>

RestartNext ==
  \/ \E r \in Reqs : saveEmailCredentials(r, "u1", ScenarioBody)
  \/ \E r \in Reqs : saveEmailCredentials_update(r)
  \/ emailOperation_throw("u1")
  \/ \E r \in Reqs : emailOperation(r, "u1")
  \/ \E r \in Reqs : emailOperation_callTool(r)
  \/ \E r \in Reqs : callTool_done(r)
  \/ Restart

RestartSpec == RestartInit /\ [][RestartNext]_vars

-----------------------------------------------------------------------------
(* Key provisioning on its own: one module loaded under one configured     *)
(* value.                                                                  *)

ConfiguredValues ==
  {NotSet} \cup
  {Configured(chars, hexDigits, pad, 1) :
     chars \in {0, 5, 32, 43, 44, 64, 88}, hexDigits \in {0, 10, 64}, pad \in {0, 1, 2}}

\* the values a string can have: its hex digits and its padding lie within it
WellFormedValues ==
  {v \in ConfiguredValues : v.set => v.hexDigits + v.pad <= v.chars}

KeyInit ==
  /\ CRYPTO_KEY \in WellFormedValues
  /\ ENCRYPTION_KEY = 1
  /\ legacyCipher = TRUE
  /\ rng = 0
  /\ cImpl \in Impls
  /\ cText = <<>>
  /\ cEnc = <<>>
  /\ cDec = NoDec
  /\ now = 0
  /\ db = [u \in Registered |-> NoConfig]
  /\ env = Unset
  /\ reqs = [r \in Reqs |-> Idle]
  /\ resp = NoResp
  /\ lastSaved = [u \in Registered |-> NoBody]
  /\ boots = 0
  /\ bootedAt = 0
  /\ kKey = Null
  /\ ScriptsIdle
  /\ pReq = NoParamReq
  /\ pArgs = Null
  /\ mErr = NoError
  /\ mRes = <<>>

\* the module's top-level statements that set ENCRYPTION_KEY
ModuleLoad ==
  /\ kKey = Null
  /\ kKey' = Value(LoadKeyOf(cImpl, CRYPTO_KEY, boots))
  /\ UNCHANGED <<ENCRYPTION_KEY, legacyCipher, rng, cvars, svars, pvars, tvars, lvars,
                 CRYPTO_KEY, boots, bootedAt>>

KeyNext == ModuleLoad

KeySpec == KeyInit /\ [][KeyNext]_vars

-----------------------------------------------------------------------------
(* The error middleware on its own: one error handed to next, of any name,
   with any message, under either NODE_ENV.                                *)

ErrorNames ==
  {"ValidationError", "EmailConnectionError", "EmailAuthError", "MCPToolError",
   "Error", "TypeError"}

ErrorMessages ==
  {HostMsg, PortMsg, UsernameMsg, PasswordMsg, UseSslMsg,
   "Failed to connect to email server"}
    \cup {Message(name) : name \in ErrorNames}

MiddlewareInit ==
  /\ ServerInit
  /\ ScriptsIdle
  /\ pReq = NoParamReq
  /\ pArgs = Null
  /\ mErr \in [error : {Err(name, message) : name \in ErrorNames,
                                              message \in ErrorMessages},
               nodeEnv : NodeEnvs]
  /\ mRes = <<>>

\* router.use((error, req, res, next) => ..): called once with the error, it
\* sends its response
HandleError ==
  /\ mRes = <<>>
  /\ mRes' = Append(mRes, ErrorMiddleware(mErr.error, mErr.nodeEnv))
  /\ UNCHANGED <<ENCRYPTION_KEY, legacyCipher, rng, cvars, svars, kvars, tvars, lvars, pReq, pArgs, mErr>>

MiddlewareNext == HandleError

MiddlewareSpec == MiddlewareInit /\ [][MiddlewareNext]_vars

-----------------------------------------------------------------------------
(* The arguments the e-mail handlers build for callTool, for any body.      *)

ParamOps == {"fetch", "summarize", "categorize"}

ParamBodies ==
  [folder : {Undefined, Str("Sent")},
   days : {Undefined, Num(3), Str("14"), Frac(7, 2), Str("3 days"), Str("abc"), JsNull},
   limit : {Undefined, Num(10), Str("25")},
   summary_type : {Undefined, Str("detailed")},
   unread_only : {Undefined, Bool(TRUE), Bool(FALSE), Str("false")}]

ParamInit ==
  /\ ServerInit
  /\ ScriptsIdle
  /\ pReq \in [op : ParamOps, body : ParamBodies]
  /\ pArgs = Null
  /\ mErr = NoError
  /\ mRes = <<>>

\* fetchEmails / summarizeEmails / categorizeEmails: the destructuring of
\* req.body and the arguments object of callTool
BuildToolArgs ==
  /\ pArgs = Null
  /\ pArgs' = Value([tool |-> ToolName(pReq.op), args |-> ToolArgs(pReq.op, pReq.body)])
  /\ UNCHANGED <<ENCRYPTION_KEY, legacyCipher, rng, cvars, svars, kvars, tvars, lvars, pReq, mErr, mRes>>

ParamNext == BuildToolArgs

ParamSpec == ParamInit /\ [][ParamNext]_vars
-----------------------------------------------------------------------------
(* The work-session tracker (work-session-tracker.sh): commands run one    *)
(* after the other on the session file and the work log; time is counted   *)
(* in seconds and passes between commands.                                 *)

\* most sessions logged in one behaviour
MaxSessions == 2
\* most steps of the clock in one behaviour
MaxTicks == 3
\* seconds the clock advances in one step
TickSeconds == 1800

\* the line stop appends: start, end, "<H>h <M>m", the project
LogRecord(startTime, endTime) ==
  LET duration == endTime - startTime
  IN  [start |-> startTime, end |-> endTime,
       hours |-> duration \div 3600,
       minutes |-> (duration % 3600) \div 60,
       project |-> "LibreChat Development"]

\* the lines of the work log (none while the file does not exist)
LogLines == IF WORK_LOG_FILE = Null THEN <<>> ELSE WORK_LOG_FILE.val

Ran(cmd, status, last) ==
  [cmd |-> cmd, status |-> status, clock |-> shell.clock, last |-> last]

TrackerInit ==
  /\ ServerInit
  /\ legacyCipher
  /\ pReq = NoParamReq
  /\ pArgs = Null
  /\ mErr = NoError
  /\ mRes = <<>>
  /\ SESSION_FILE = Null
  /\ WORK_LOG_FILE = Null
  /\ shell = NoCommand
  /\ SharedLink = {}
  /\ pager = NoPager

\* start writing the session file whether or not one exists
tracker_start_force ==
  /\ Len(LogLines) < MaxSessions
  /\ SESSION_FILE' = Value(shell.clock)
  /\ shell' = Ran("start", 0, "start")
  /\ UNCHANGED WORK_LOG_FILE
  /\ UNCHANGED <<ENCRYPTION_KEY, legacyCipher, rng, cvars, svars, pvars, kvars, lvars>>

\* work-session-tracker.sh start
tracker_start ==
  /\ IF SESSION_FILE # Null
     THEN /\ shell' = Ran("start", 1, shell.last)
          /\ UNCHANGED SESSION_FILE
     ELSE /\ Len(LogLines) < MaxSessions
          /\ SESSION_FILE' = Value(shell.clock)
          /\ shell' = Ran("start", 0, "start")
  /\ UNCHANGED WORK_LOG_FILE
  /\ UNCHANGED <<ENCRYPTION_KEY, legacyCipher, rng, cvars, svars, pvars, kvars, lvars>>

\* work-session-tracker.sh stop
tracker_stop ==
  /\ IF SESSION_FILE = Null
     THEN /\ shell' = Ran("stop", 1, shell.last)
          /\ UNCHANGED <<SESSION_FILE, WORK_LOG_FILE>>
     ELSE /\ WORK_LOG_FILE' =
               Value(Append(LogLines, LogRecord(SESSION_FILE.val, shell.clock)))
          /\ SESSION_FILE' = Null
          /\ shell' = Ran("stop", 0, "stop")
  /\ UNCHANGED <<ENCRYPTION_KEY, legacyCipher, rng, cvars, svars, pvars, kvars, lvars>>

\* work-session-tracker.sh status
tracker_status ==
  /\ shell' = Ran("status", 0, shell.last)
  /\ UNCHANGED <<SESSION_FILE, WORK_LOG_FILE>>
  /\ UNCHANGED <<ENCRYPTION_KEY, legacyCipher, rng, cvars, svars, pvars, kvars, lvars>>

\* work-session-tracker.sh report
tracker_report ==
  /\ shell' = Ran("report", 0, shell.last)
  /\ UNCHANGED <<SESSION_FILE, WORK_LOG_FILE>>
  /\ UNCHANGED <<ENCRYPTION_KEY, legacyCipher, rng, cvars, svars, pvars, kvars, lvars>>

\* work-session-tracker.sh with any other argument: the usage text
tracker_usage ==
  /\ shell' = Ran("usage", 0, shell.last)
  /\ UNCHANGED <<SESSION_FILE, WORK_LOG_FILE>>
  /\ UNCHANGED <<ENCRYPTION_KEY, legacyCipher, rng, cvars, svars, pvars, kvars, lvars>>

\* time passes between two commands
Tick ==
  /\ shell.clock < MaxTicks * TickSeconds
  /\ shell' = [shell EXCEPT !.clock = @ + TickSeconds]
  /\ UNCHANGED <<SESSION_FILE, WORK_LOG_FILE>>
  /\ UNCHANGED <<ENCRYPTION_KEY, legacyCipher, rng, cvars, svars, pvars, kvars, lvars>>

TrackerNext ==
  \/ tracker_start
  \/ tracker_stop
  \/ tracker_status
  \/ tracker_report
  \/ tracker_usage
  \/ Tick

TrackerSpec == TrackerInit /\ [][TrackerNext]_vars

-----------------------------------------------------------------------------
(* The shared links of a user, read page after page (getSharedLinks). The  *)
(* collection is drawn at the start and not written while a caller pages.  *)

\* most documents in the SharedLink collection
MaxLinks == 3
\* createdAt of a document, in milliseconds: 1..MaxCreatedAt
MaxCreatedAt == 2
\* pageSize = 10 of the destructuring
PageSizeDefault == 10

LinkIds == 1..MaxLinks

\* the contents the collection may have: each document its _id, user, createdAt
Collections ==
  {{[id |-> i, user |-> f[i].user, createdAt |-> f[i].createdAt] : i \in ids} :
     ids \in SUBSET LinkIds,
     f \in [LinkIds -> [user : Registered, createdAt : 1..MaxCreatedAt]]}

\* the pageSize a caller passes: none, a number, or the text of a query string
PageSizes == {Undefined, Num(1), Num(2), Str("2")}

\* Date.prototype.toISOString() and new Date(isoString): both keep the
\* milliseconds
ToISOString(ms) == [t |-> "string", s |-> "iso", ms |-> ms]
NewDate(x) == x.ms

\* SharedLink.find(query, null, {sort: {createdAt: -1}, limit}): the results
\* the database may give; documents of equal createdAt come in any order
Find(matching, limit) ==
  LET k == IF Cardinality(matching) < limit THEN Cardinality(matching) ELSE limit
  IN  {s \in [1..k -> matching] :
         /\ \A i, j \in 1..k :
              i < j => s[i] # s[j] /\ s[i].createdAt >= s[j].createdAt
         /\ \A l \in matching \ {s[i] : i \in 1..k} :
              \A i \in 1..k : l.createdAt <= s[i].createdAt}

\* getSharedLinks(params): the pages it may return
getSharedLinks(params) ==
  LET pageSize == Default(params.pageSize, Num(PageSizeDefault))
      limit == ParseInt(pageSize)
      matching ==
        {l \in SharedLink :
           /\ l.user = params.user
           /\ ToBoolean(params.pageParam).b =>
                l.createdAt < NewDate(params.pageParam)}
  IN  {[shares |-> shares,
        nextCursor |-> IF Num(Len(shares)) = pageSize
                       THEN ToISOString(shares[Len(shares)].createdAt)
                       ELSE Null,
        hasNextPage |-> Num(Len(shares)) = pageSize] :
         shares \in Find(matching, limit.n)}

LinksInit ==
  /\ ServerInit
  /\ legacyCipher
  /\ pReq = NoParamReq
  /\ pArgs = Null
  /\ mErr = NoError
  /\ mRes = <<>>
  /\ SESSION_FILE = Null
  /\ WORK_LOG_FILE = Null
  /\ shell = NoCommand
  /\ SharedLink \in Collections
  /\ pager = NoPager

\* a caller asks for the first page of a user's links
FirstPage(user, pageSize) ==
  /\ pager = NoPager
  /\ \E page \in getSharedLinks([user |-> user, pageParam |-> Undefined,
                                 pageSize |-> pageSize]) :
       pager' = [user |-> user, pageSize |-> pageSize, pages |-> <<page>>]
  /\ UNCHANGED SharedLink
  /\ UNCHANGED <<ENCRYPTION_KEY, legacyCipher, rng, cvars, svars, pvars, kvars, tvars>>

\* the caller follows the nextCursor of the last page it got
NextPage ==
  /\ pager # NoPager
  /\ pager.pages[Len(pager.pages)].nextCursor # Null
  /\ \E page \in getSharedLinks(
         [user |-> pager.user,
          pageParam |-> pager.pages[Len(pager.pages)].nextCursor,
          pageSize |-> pager.pageSize]) :
       pager' = [pager EXCEPT !.pages = Append(@, page)]
  /\ UNCHANGED SharedLink
  /\ UNCHANGED <<ENCRYPTION_KEY, legacyCipher, rng, cvars, svars, pvars, kvars, tvars>>

LinksNext ==
  \/ \E user \in Registered, pageSize \in PageSizes : FirstPage(user, pageSize)
  \/ NextPage

LinksSpec == LinksInit /\ [][LinksNext]_vars

-----------------------------------------------------------------------------
(* Properties of the encryption helpers (checked under CryptoSpec).        *)

\* C2: round trip. For the controller's encrypt/decrypt (on a runtime that has
\* the cipher calls it makes) and for the second revision's encryptV2/decryptV2,
\* encrypt of a string returns without throwing and decrypt of what it returned
\* gives the string back.
C2_RoundTrip ==
  ((cImpl = "controller" /\ legacyCipher) \/ cImpl = "v2r2") =>
    /\ \A i \in 1..Len(cEnc) : cEnc[i].kind # "throw"
    /\ (cDec.src # 0 /\ cDec.impl = cImpl /\ cDec.tamper = "none")
          => cDec.out = Value(cText)

\* C3: tamper detection. Decrypting a record with one bit of its ciphertext or
\* of its authTag flipped never returns a plaintext: the call returns null or
\* throws.
C3_TamperFailsClosed ==
  cDec.tamper \in {"encrypted", "authTag"} => cDec.out.kind \in {"null", "throw"}

\* a tampered record reached the controller's decrypt on a runtime where the
\* cipher exists, and the tag check rejected it
C3_Witness ==
  /\ cDec.tamper \in {"encrypted", "authTag"}
  /\ cDec.impl = "controller"
  /\ legacyCipher
  /\ cDec.out = Throw("Error")

\* C4: IV uniqueness. Two encrypt calls on the same non-empty plaintext under
\* the same key return different iv values and different ciphertexts.
C4_IvUnique ==
  cText # <<>> =>
    \A i, j \in Records :
      i # j => /\ cEnc[i].val.iv # cEnc[j].val.iv
               /\ cEnc[i].val.encrypted # cEnc[j].val.encrypted

\* C5: the stored iv decides the result of decrypt. Decrypting a record (of a
\* non-empty plaintext) whose iv field was replaced by another value does not
\* return the original plaintext.
C5_StoredIvUsed ==
  (cText # <<>> /\ cDec.tamper = "iv" /\ cDec.impl \in {"controller", "v2r1"})
     => cDec.out # Value(cText)

-----------------------------------------------------------------------------
(* Properties of the credential store (checked under StoreSpec).           *)

\* C6: secrecy. No response of getEmailCredentials or saveEmailCredentials has
\* a field other than success, message, hasCredentials, config, error and
\* details; none of its strings is a plaintext password; and the config that
\* getEmailCredentials returns has exactly the fields host, port, username,
\* use_ssl and created_at, so neither the password nor the encrypted_password
\* record (encrypted, iv, authTag) is in it.
C6_Secrecy ==
  (resp.sent /\ resp.op \in {"get", "save"}) =>
    LET json == resp.json
        strings == {json[f] : f \in DOMAIN json \cap {"message", "error", "details"}}
    IN  /\ DOMAIN json \subseteq
             {"success", "message", "hasCredentials", "config", "error", "details"}
        /\ strings \cap Passwords = {}
        /\ ("config" \in DOMAIN json /\ json.hasCredentials) =>
             /\ DOMAIN json.config = {"host", "port", "username", "use_ssl", "created_at"}
             /\ {json.config.host, json.config.username} \cap Passwords = {}

\* getEmailCredentials answered for a user whose credentials are stored
C6_Witness ==
  /\ resp.sent /\ resp.op = "get"
  /\ resp.json.hasCredentials
  /\ HasConfig(db[resp.user])
  /\ lastSaved[resp.user].password = Str("secret123")

\* C7: a stored emailConfig has the fields of EmailConfigSchema and no other;
\* its encrypted_password is {encrypted, iv, authTag} as returned by an encrypt
\* call on the password of the latest successful save of that user; the
\* plaintext password is no field of the record.
C7_StoredEncrypted ==
  \A u \in Registered :
    HasConfig(db[u]) =>
      /\ lastSaved[u] # NoBody
      /\ DOMAIN db[u] = {"host", "port", "username", "use_ssl",
                         "encrypted_password", "created_at", "updated_at"}
      /\ DOMAIN db[u].encrypted_password = {"encrypted", "iv", "authTag"}
      /\ \E n \in 0..(rng - 1) :
           encrypt(Chars(lastSaved[u].password.s), ENCRYPTION_KEY, n, legacyCipher)
             = Value(db[u].encrypted_password)
      /\ {db[u].host, db[u].username} \cap Passwords = {}

\* a user's credentials were saved twice, the second time with another password
C7_Witness ==
  /\ HasConfig(db["u1"])
  /\ rng = 2
  /\ db["u1"].created_at = 1
  /\ lastSaved["u1"].password = Str("p{a-umlaut}{euro}")

\* C8: a save whose body has port 0, port 65536, a non-integer port (3/2, or
\* the string "993"), an empty
\* host, an empty username or an empty password is rejected (no 200), the error
\* handed on carries the message of one of the offending fields, the messages
\* of the four fields differ, and the step leaves every stored record unchanged.
C8_RejectsInvalid ==
  [][ (resp'.sent /\ resp'.op = "save") =>
        LET body == resp'.input
            offending ==
              (IF body.host = Str("") THEN {HostMsg} ELSE {})
                \cup (IF body.port \in {Num(0), Num(65536), Frac(3, 2), Str("993")}
                        THEN {PortMsg} ELSE {})
                \cup (IF body.username = Str("") THEN {UsernameMsg} ELSE {})
                \cup (IF body.password = Str("") THEN {PasswordMsg} ELSE {})
        IN  /\ offending # {} =>
                 /\ resp'.status # 200
                 /\ resp'.error.message \in offending
            /\ resp'.status # 200 => db' = db
            /\ Cardinality({HostMsg, PortMsg, UsernameMsg, PasswordMsg}) = 4 ]_vars

\* a save with port 65536 was rejected while a record was stored
C8_Witness ==
  /\ resp.sent /\ resp.op = "save"
  /\ resp.input.port = Num(65536)
  /\ resp.status # 200
  /\ resp.error.message = PortMsg
  /\ \E u \in Registered : HasConfig(db[u])

\* C9: POST /credentials is answered with 400 when the body fails validation,
\* and (on a runtime where encrypt works) with 200 {success, hasCredentials:
\* true} when the body passes validation and the user exists.
C9_SaveStatus ==
  (resp.sent /\ resp.op = "save") =>
    /\ validateCredentials(resp.input) # "ok" => resp.status = 400
    /\ (validateCredentials(resp.input) = "ok" /\ resp.user \in Registered /\ legacyCipher) =>
         /\ resp.status = 200
         /\ resp.json.success
         /\ resp.json.hasCredentials

\* C10: getEmailCredentials for a user whose latest save or delete is a
\* successful save answers 200 with hasCredentials true and config.host,
\* config.port, config.username, config.use_ssl as saved (use_ssl true when the
\* save gave none), and has no password field.
C10_GetAfterSave ==
  (resp.sent /\ resp.op = "get" /\ resp.user \in Registered
     /\ lastSaved[resp.user] # NoBody) =>
    LET saved == lastSaved[resp.user]
        json == resp.json
    IN  /\ resp.status = 200
        /\ json.hasCredentials
        /\ json.config.host = saved.host.s
        /\ json.config.port * saved.port.d = saved.port.n
        /\ json.config.username = saved.username.s
        /\ json.config.use_ssl = (IF saved.use_ssl.t = "boolean" THEN saved.use_ssl.b ELSE TRUE)
        /\ "password" \notin DOMAIN json
        /\ "password" \notin DOMAIN json.config

\* the scenario: save of imap.example.com, 993, a@example.com, secret123, true,
\* then getEmailCredentials
C10_Witness ==
  /\ resp.sent /\ resp.op = "get" /\ resp.user = "u1"
  /\ lastSaved["u1"] = ScenarioBody
  /\ resp.json.config.host = "imap.example.com"
  /\ resp.json.config.port = 993
  /\ resp.json.config.username = "a@example.com"
  /\ resp.json.config.use_ssl

\* C11: each user has no stored credential set or one, and a stored set is,
\* as a whole, the emailConfig one save built from the body of the user's
\* latest save (one encrypt call, one clock reading): no field of it comes
\* from an earlier save.
C11_SingleSet ==
  \A u \in Registered :
    \/ db[u] = NoConfig
    \/ /\ lastSaved[u] # NoBody
       /\ \E n \in 0..(rng - 1), d \in 0..(now - 1) :
            db[u] = EmailConfig(lastSaved[u],
                                encrypt(Chars(lastSaved[u].password.s),
                                        ENCRYPTION_KEY, n, legacyCipher).val,
                                d)

\* two saves were in flight together and the one that started first wrote last:
\* its set is the stored one
C11_Witness ==
  /\ \A r \in Reqs : reqs[r] = Idle
  /\ rng = 2
  /\ resp.sent /\ resp.op = "save" /\ resp.user = "u1" /\ resp.status = 200
  /\ HasConfig(db["u1"])
  /\ db["u1"].created_at = 0
  /\ lastSaved["u1"] = resp.input

\* C14: deleteEmailCredentials answers 200 with success whether or not a
\* credential set is stored, and leaves none stored for the user; a second
\* delete of the same user right after the first changes nothing, and a
\* getEmailCredentials of the user right after a delete reports hasCredentials
\* false with no config.
C14_DeleteIdempotent ==
  [][ /\ (resp'.sent /\ resp'.op = "delete") =>
           /\ resp'.status = 200
           /\ resp'.json.success
           /\ resp'.user \in Registered => db'[resp'.user] = NoConfig
           /\ (resp.sent /\ resp.op = "delete" /\ resp.user = resp'.user) =>
                 /\ db' = db
                 /\ lastSaved' = lastSaved
                 /\ reqs' = reqs
                 /\ env' = env
      /\ (resp.sent /\ resp.op = "delete"
            /\ resp'.sent /\ resp'.op = "get" /\ resp'.user = resp.user) =>
           /\ resp'.status = 200
           /\ ~resp'.json.hasCredentials
           /\ resp'.json.config = JsNull ]_vars

\* a delete was answered with success for a user with nothing stored, after
\* credentials had been saved in the process
C14_Witness ==
  /\ resp.sent /\ resp.op = "delete" /\ resp.status = 200
  /\ resp.user \in Registered
  /\ db[resp.user] = NoConfig
  /\ \E u \in Registered : HasConfig(db[u])

-----------------------------------------------------------------------------
(* Properties of the e-mail operations (checked under Spec).               *)

\* C1: the last write to the shared environment wins. Each handler's step to
\* its tool call replaces process.env.IMAP_* by that request's credentials,
\* nothing else changes the environment, and a tool call reads the values the
\* environment holds when it runs, whichever request it was made for.
C1_LastWriteWins ==
  [][ /\ \A r \in Reqs :
           /\ (reqs[r].pc # "called" /\ reqs'[r].pc = "called") =>
                 /\ env' = reqs'[r].own
                 /\ env'.by = reqs'[r].user
           /\ (reqs[r].pc = "called" /\ reqs'[r].pc # "called") =>
                 /\ resp'.sent
                 /\ resp'.saw = env
      /\ env' # env => \E r \in Reqs : reqs[r].pc # "called" /\ reqs'[r].pc = "called" ]_vars

\* a tool call made for one user's request succeeded on the credentials
\* another user's request had written
C1_Witness ==
  /\ resp.sent
  /\ resp.op \in ToolOps \cup {"test"}
  /\ resp.status = 200
  /\ EnvSet(resp.saw)
  /\ resp.saw.by # resp.user
  /\ resp.json.success

\* C12: ownership. A user's stored record changes only in a save or delete
\* step of that user's own request; the config a getEmailCredentials response
\* holds and the credentials an e-mail operation loads are those of the
\* requesting user's latest save, and none of their host, username or password
\* is a value only another user saved.
C12_Ownership ==
  [][ /\ \A B \in Registered :
           db'[B] # db[B] =>
             resp'.sent /\ resp'.user = B /\ resp'.op \in {"save", "delete"}
      /\ (resp'.sent /\ resp'.op = "get" /\ resp'.json.hasCredentials) =>
           LET A == resp'.user
               c == resp'.json.config
           IN  /\ lastSaved[A] # NoBody
               /\ c.host = lastSaved[A].host.s
               /\ c.username = lastSaved[A].username.s
               /\ \A B \in Registered \ {A} :
                    lastSaved[B] # NoBody =>
                      c.host # lastSaved[B].host.s /\ c.username # lastSaved[B].username.s
      /\ \A r \in Reqs :
           (reqs'[r].pc = "loaded" /\ reqs[r].pc # "loaded") =>
             LET A == reqs'[r].user
                 c == reqs'[r].credentials
             IN  /\ A \in Registered
                 /\ lastSaved[A] # NoBody
                 /\ c.host = lastSaved[A].host.s
                 /\ c.username = lastSaved[A].username.s
                 /\ c.password = lastSaved[A].password.s
                 /\ \A B \in Registered \ {A} :
                      lastSaved[B] # NoBody =>
                        /\ c.host # lastSaved[B].host.s
                        /\ c.username # lastSaved[B].username.s
                        /\ c.password # lastSaved[B].password.s ]_vars

\* an e-mail operation of the second user loaded credentials while the first
\* user's were stored too
C12_Witness ==
  /\ HasConfig(db["u1"])
  /\ HasConfig(db["u2"])
  /\ \E r \in Reqs :
       /\ reqs[r].pc = "loaded"
       /\ reqs[r].user = "u2"
       /\ reqs[r].credentials.password = "p{a-umlaut}{euro}"


\* C13: a tool operation (folders, fetch, summarize, categorize) is answered
\* 401 with EmailAuthError exactly when its user has no stored credentials at
\* the point the handler loads them: a request answered at that point gets 401
\* if and only if nothing is stored for its user, a request that goes on to
\* the tool had credentials stored, and a request that reached the tool is
\* never answered 401. With the 401 the tool is not invoked (no request moves)
\* and the IMAP_* environment values are not written.
C13_AuthError ==
  [][/\ (resp'.sent /\ resp'.op \in ToolOps /\ reqs' = reqs) =>
          /\ resp'.status = 401 <=>
               ~(resp'.user \in Registered /\ HasConfig(db[resp'.user]))
          /\ resp'.status = 401 <=> resp'.error.name = "EmailAuthError"
     /\ (resp'.sent /\ resp'.op \in ToolOps /\ resp'.status = 401) =>
          /\ reqs' = reqs
          /\ env' = env
          /\ resp'.saw = Unset
     /\ \A r \in Reqs :
          (reqs'[r].pc = "loaded" /\ reqs[r].pc # "loaded") =>
            /\ reqs'[r].user \in Registered
            /\ HasConfig(db[reqs'[r].user])]_vars

\* a tool operation of u1, who has nothing stored, answered 401 while u2 has
\* credentials stored and the environment holds values of an earlier request
C13_Witness ==
  /\ resp.sent /\ resp.op \in ToolOps /\ resp.status = 401
  /\ resp.user = "u1"
  /\ ~HasConfig(db["u1"])
  /\ HasConfig(db["u2"])
  /\ EnvSet(env)

\* C15: a connection test calls the list_folders tool with the credentials of
\* the request body, not the stored ones: at the call the IMAP_* environment
\* values are the body's host, port, username, password and SSL flag. The test
\* leaves every stored record as it was, at the call and at its response,
\* whether it succeeds or fails.
C15_TestUsesBody ==
  [][/\ \A r \in Reqs :
          (reqs'[r].pc = "called" /\ reqs'[r].op = "test" /\ reqs[r].pc # "called") =>
            LET body == reqs'[r].body IN
            /\ reqs'[r].tool = "list_folders"
            /\ reqs'[r].args = <<>>
            /\ env'.IMAP_HOST = body.host.s
            /\ env'.IMAP_PORT = toString(body.port.n)
            /\ env'.IMAP_USERNAME = body.username.s
            /\ env'.IMAP_PASSWORD = body.password.s
            /\ env'.IMAP_USE_SSL = TruthyString(body.use_ssl)
            /\ db' = db
     /\ (resp'.sent /\ resp'.op = "test") => db' = db]_vars

\* a test of u1 succeeded against the body's server while u1 has credentials
\* for another server stored
C15_Witness ==
  /\ resp.sent /\ resp.op = "test" /\ resp.status = 200
  /\ resp.user = "u1"
  /\ HasConfig(db["u1"])
  /\ db["u1"].host # resp.input.host.s
  /\ resp.saw.IMAP_HOST = resp.input.host.s
  /\ resp.saw.IMAP_PASSWORD = resp.input.password.s

\* C16: a connection test reports a failed tool call as EmailConnectionError
\* (503), and that is distinct from a validation failure: a test request whose
\* body fails validation is not answered with EmailConnectionError or 503.
C16_ValidationDistinct ==
  /\ (resp.sent /\ resp.op = "test" /\ validateCredentials(resp.input) = "ok"
        /\ resp.status # 200) =>
       resp.status = 503 /\ resp.error.name = "EmailConnectionError"
  /\ (resp.sent /\ resp.op = "test" /\ validateCredentials(resp.input) # "ok") =>
       resp.status # 503 /\ resp.error.name # "EmailConnectionError"

\* C17: when validateCredentials rejects the body of a save or of a connection
\* test, the request is answered in that step with no tool call made for it
\* (no request moves, the response holds nothing read by a tool) and without
\* the IMAP_* environment values being written; every connection test that is
\* at the tool has a body validateCredentials accepts.
C17_RejectedNoTool ==
  [][/\ (resp'.sent /\ resp'.op \in {"save", "test"}
           /\ validateCredentials(resp'.input) # "ok") =>
          /\ env' = env
          /\ reqs' = reqs
          /\ resp'.saw = Unset
     /\ \A r \in Reqs :
          (reqs'[r].pc = "called" /\ reqs'[r].op = "test") =>
            validateCredentials(reqs'[r].body) = "ok"]_vars

\* a connection test with a rejected body answered while the environment
\* holds the values another user's request wrote
C17_Witness ==
  /\ resp.sent /\ resp.op = "test"
  /\ validateCredentials(resp.input) # "ok"
  /\ EnvSet(env)
  /\ env.by = "u2"

\* C18: every e-mail request invokes callTool at most once, and the call's
\* completion ends the request: the request at the tool made one call; its
\* next step answers it (200, or on a failed call 503 for a connection test
\* and 500 for the other operations) and leaves it idle, with no second call,
\* and that step changes no other request, no stored record and no
\* environment value.
C18_NoRetry ==
  [][\A r \in Reqs :
       /\ reqs'[r].pc = "called" => reqs'[r].calls = 1
       /\ (reqs[r].pc = "called" /\ reqs'[r] # reqs[r]) =>
            /\ reqs'[r] = Idle
            /\ resp'.sent
            /\ resp'.user = reqs[r].user
            /\ resp'.op = reqs[r].op
            /\ resp'.status \in {200, 500, 503}
            /\ resp'.status # 200 =>
                 resp'.status = IF reqs[r].op = "test" THEN 503 ELSE 500
            /\ \A q \in Reqs \ {r} : reqs'[q] = reqs[q]
            /\ db' = db
            /\ env' = env]_vars

\* a tool operation answered 500 after its one call failed, while another
\* request is still at the tool
C18_Witness ==
  /\ resp.sent /\ resp.op \in ToolOps /\ resp.status = 500
  /\ resp.error.name = "MCPToolError"
  /\ resp.saw # Unset
  /\ \E q \in Reqs : reqs[q].pc = "called"

\* C26: use_ssl defaults to true where the body omits it, for a connection
\* test as for a save: the IMAP_USE_SSL value a test passes to the tool is
\* the one a save of the same body would store (and tool operations would
\* pass on later), "true" for a body without use_ssl.
C26_SameSslDefault ==
  \A r \in Reqs :
    (reqs[r].pc = "called" /\ reqs[r].op = "test") =>
      LET body == reqs[r].body
          stored == EmailConfig(body, <<>>, now).use_ssl
      IN  /\ reqs[r].own.IMAP_USE_SSL = (IF stored THEN "true" ELSE "false")
          /\ body.use_ssl = Undefined => reqs[r].own.IMAP_USE_SSL = "true"

\* the five IMAP_* values of an environment
Quintuple(e) ==
  <<e.IMAP_HOST, e.IMAP_PORT, e.IMAP_USERNAME, e.IMAP_PASSWORD, e.IMAP_USE_SSL>>

\* the five values a tool operation writes for credentials saved from body,
\* and those a connection test writes for body
SavedQuintuple(body) ==
  <<body.host.s, toString(body.port.n), body.username.s, body.password.s,
    IF EmailConfig(body, <<>>, 0).use_ssl THEN "true" ELSE "false">>
TestQuintuple(body) ==
  <<body.host.s, toString(body.port.n), body.username.s, body.password.s,
    TruthyString(body.use_ssl)>>

\* C27: in every reachable state the five IMAP_* environment values, once
\* written, are the five values of one request's credentials (those saved by
\* one user, or the body of one connection test), never host or username of
\* one request with port, password or SSL flag of another.
C27_EnvFromOneRequest ==
  EnvSet(env) =>
    Quintuple(env) \in {SavedQuintuple(OwnBody(u)) : u \in Registered}
                         \cup {TestQuintuple(ProbeBody)}

\* two users' requests interleaved: u1's request is at the tool while the
\* environment holds the five values u2's request wrote after it
C27_Witness ==
  /\ EnvSet(env)
  /\ env.by = "u2"
  /\ Quintuple(env) = SavedQuintuple(OtherBody)
  /\ \E r \in Reqs :
       /\ reqs[r].pc = "called"
       /\ reqs[r].user = "u1"
       /\ Quintuple(reqs[r].own) # Quintuple(env)

\* C28: every request that is answered has exactly one outcome: either the
\* handler's one JSON success response (200, success true, nothing handed to
\* next) or one error handed to next and answered by the middleware with one
\* error response (success false); never both, never two responses or two
\* errors; and the step that answers a suspended request ends it, so that
\* nothing is sent for it again.
C28_OneOutcome ==
  [][/\ resp'.sent =>
          /\ resp'.sends = 1
          /\ resp'.nexts \in {0, 1}
          /\ resp'.nexts = 0 <=> (resp'.status = 200 /\ resp'.json.success)
          /\ resp'.nexts = 1 <=> (resp'.status # 200 /\ ~resp'.json.success)
          /\ resp'.nexts = 1 <=> resp'.error # NoErr
     /\ \A r \in Reqs :
          (reqs[r].pc # "idle" /\ resp'.sent /\ reqs'[r] # reqs[r]) =>
            /\ reqs'[r] = Idle
            /\ resp'.user = reqs[r].user
            /\ resp'.op = reqs[r].op
     /\ (resp'.sent /\ \E r \in Reqs : reqs'[r] # reqs[r]) =>
          Cardinality({r \in Reqs : reqs'[r] # reqs[r]}) = 1]_vars

\* a request answered with the one error response of the middleware while
\* another request is suspended
C28_Witness ==
  /\ resp.sent /\ resp.nexts = 1 /\ resp.sends = 1
  /\ resp.status = 500
  /\ \E r \in Reqs : reqs[r].pc # "idle"

-----------------------------------------------------------------------------
(* Properties of the error middleware (checked under MiddlewareSpec).      *)

\* C19: the error middleware answers an error named ValidationError with 400,
\* EmailConnectionError with 503, EmailAuthError with 401, MCPToolError with
\* 500 and an error of any other name with 500; an error handed to it gets one
\* response, never more, and its JSON body has success false.
C19_ErrorMapping ==
  /\ Len(mRes) <= 1
  /\ mRes # <<>> =>
       /\ mRes[1].status =
            (CASE mErr.error.name = "ValidationError" -> 400
               [] mErr.error.name = "EmailConnectionError" -> 503
               [] mErr.error.name = "EmailAuthError" -> 401
               [] OTHER -> 500)
       /\ mRes[1].json.success = FALSE

\* an EmailAuthError answered 401
C19_Witness ==
  /\ mRes # <<>>
  /\ mErr.error.name = "EmailAuthError"
  /\ mRes[1].status = 401
  /\ mRes[1].json.success = FALSE

-----------------------------------------------------------------------------
(* Properties of the tool arguments (checked under ParamSpec).             *)

\* C20: fetchEmails, summarizeEmails and categorizeEmails forward folder,
\* days, limit and unread_only to the tool: "INBOX", 7, 50 and false for a
\* parameter the body omits; otherwise the supplied folder, the supplied days
\* and limit as integers (for a value that reads as an integer; an integer is
\* forwarded as it is) and the supplied unread_only as a boolean (a boolean is
\* forwarded as it is).
C20_ForwardedParams ==
  pArgs # Null =>
    LET b == pReq.body
        a == pArgs.val.args
        AsInteger(x, v) ==
          /\ v.t = "number" /\ v.d = 1
          /\ (x.t = "number" /\ x.d = 1) => v = x
    IN  /\ "folder" \in DOMAIN a
        /\ a.folder = IF b.folder = Undefined THEN Str("INBOX") ELSE b.folder
        /\ "days" \in DOMAIN a
        /\ IF b.days = Undefined THEN a.days = Num(7)
           ELSE ParseInt(b.days) # NaN => AsInteger(b.days, a.days)
        /\ "limit" \in DOMAIN a
        /\ IF b.limit = Undefined THEN a.limit = Num(50)
           ELSE ParseInt(b.limit) # NaN => AsInteger(b.limit, a.limit)
        /\ "unread_only" \in DOMAIN a
        /\ IF b.unread_only = Undefined THEN a.unread_only = Bool(FALSE)
           ELSE /\ a.unread_only.t = "boolean"
                /\ b.unread_only.t = "boolean" => a.unread_only = b.unread_only

-----------------------------------------------------------------------------
(* Properties of the life of the decrypted material and of the key.        *)

\* C21: the four tool operations make the decrypted password available to the
\* tool for the duration of the one call only: once the call has completed
\* (with a result or an error) and the response was sent, the process
\* environment does not hold the values, password included, that the request
\* of that user wrote.
C21_PasswordCleared ==
  (resp.sent /\ resp.op \in ToolOps /\ resp.saw # Unset) =>
    ~(EnvSet(env) /\ env.by = resp.user)

\* the stored password of user u does not decrypt under the key in use
DecryptFails(u) ==
  /\ HasConfig(db[u])
  /\ decrypt(Value(db[u].encrypted_password), ENCRYPTION_KEY, legacyCipher).kind = "throw"

\* C22: while decrypting a user's stored password fails, a tool operation of
\* that user ends in an error response of the error middleware at the point
\* it loads the credentials: no such request goes on towards callTool, and the
\* step writes no IMAP_* environment value; a request that does go on holds
\* the saved password, and that is the password it writes to the environment.
C22_DecryptFailurePropagates ==
  [][/\ \A u \in Registered :
          DecryptFails(u) =>
            /\ \A r \in Reqs :
                 ~(reqs'[r].pc = "loaded" /\ reqs[r].pc # "loaded"
                     /\ reqs'[r].user = u)
            /\ (resp'.sent /\ resp'.op \in ToolOps /\ resp'.user = u
                  /\ reqs' = reqs) =>
                 /\ resp'.status = 500
                 /\ resp'.json.success = FALSE
                 /\ resp'.saw = Unset
                 /\ env' = env
     /\ \A r \in Reqs :
          /\ (reqs'[r].pc = "loaded" /\ reqs[r].pc # "loaded") =>
               reqs'[r].credentials.password = lastSaved[reqs'[r].user].password.s
          /\ (reqs'[r].pc = "called" /\ reqs[r].pc = "loaded") =>
               env'.IMAP_PASSWORD = reqs[r].credentials.password]_vars

\* a tool operation of a user whose stored password no longer decrypts,
\* answered 500 with nothing written to the environment
C22_Witness ==
  /\ resp.sent /\ resp.op \in ToolOps /\ resp.status = 500
  /\ resp.user \in Registered
  /\ DecryptFails(resp.user)
  /\ resp.saw = Unset
  /\ env = Unset

\* the stored credentials of user u were saved before the last restart
SavedBeforeRestart(u) ==
  /\ HasConfig(db[u])
  /\ db[u].created_at < bootedAt

\* C23: with an encryption key configured, credentials saved before a restart
\* decrypt to the saved password after it; with none configured (a random key
\* per process), credentials saved before a restart are never decrypted after
\* it: getDecryptedCredentials throws, and a tool operation of that user ends
\* in an error response without reaching the tool.
C23_KeyAcrossRestart ==
  \A u \in Registered :
    SavedBeforeRestart(u) =>
      LET credentials == getDecryptedCredentials(u) IN
      IF CRYPTO_KEY.set
      THEN /\ credentials.kind = "value"
           /\ credentials.val.password = lastSaved[u].password.s
      ELSE /\ credentials.kind = "throw"
           /\ \A r \in Reqs :
                reqs[r].pc \in {"loaded", "called"} => reqs[r].user # u
           /\ (resp.sent /\ resp.op \in ToolOps /\ resp.user = u) =>
                /\ resp.status = 500
                /\ resp.json.success = FALSE
                /\ resp.saw = Unset

\* with a key configured: a tool operation after a restart ran on the
\* password saved before it
C23_Witness ==
  /\ CRYPTO_KEY.set
  /\ boots > 0
  /\ SavedBeforeRestart("u1")
  /\ resp.sent /\ resp.op \in ToolOps /\ resp.user = "u1" /\ resp.status = 200
  /\ resp.saw.IMAP_PASSWORD = lastSaved["u1"].password.s

\* the configured value decodes, as hex when it has 64 characters and as
\* base64 otherwise, to exactly 32 bytes
DecodesTo32(v) ==
  /\ v.set
  /\ (IF v.chars = 64 THEN HexLength(v) ELSE Base64Length(v)) = KeyBytes

\* C24: after initialisation the key in use is exactly 32 bytes long, and a
\* configured value that does not decode (as hex when it has 64 characters,
\* as base64 otherwise) to exactly 32 bytes is not the key in use.
C24_KeyLength ==
  kKey # Null =>
    /\ kKey.val.len = KeyBytes
    /\ ~DecodesTo32(CRYPTO_KEY) => kKey.val.src # "configured"

-----------------------------------------------------------------------------
(* Properties of the work-session tracker (checked under TrackerSpec).     *)

\* C29: at most one session is active, and for every command run (a step that
\* leaves the clock alone and changes the shell's record):
\* start succeeds exactly when no session file exists, and then creates it and
\* leaves the work log alone; stop succeeds exactly when one exists, and then
\* appends one record to the work log and removes the session file; so a
\* successful start follows no successful start and a successful stop follows
\* a successful start; a rejected start or stop exits with status 1 and
\* changes neither file; status, report and the usage text change neither file.
C29_SessionsAlternate ==
  [][/\ (shell'.cmd = "start" /\ shell'.clock = shell.clock /\ shell' # shell) =>
          /\ shell'.status = 0 <=> SESSION_FILE = Null
          /\ shell'.status = 0 =>
               /\ SESSION_FILE' # Null
               /\ WORK_LOG_FILE' = WORK_LOG_FILE
               /\ shell.last # "start"
          /\ shell'.status # 0 =>
               /\ shell'.status = 1
               /\ SESSION_FILE' = SESSION_FILE
               /\ WORK_LOG_FILE' = WORK_LOG_FILE
     /\ (shell'.cmd = "stop" /\ shell'.clock = shell.clock /\ shell' # shell) =>
          /\ shell'.status = 0 <=> SESSION_FILE # Null
          /\ shell'.status = 0 =>
               /\ SESSION_FILE' = Null
               /\ WORK_LOG_FILE' # Null
               /\ Len(WORK_LOG_FILE'.val) = Len(LogLines) + 1
               /\ SubSeq(WORK_LOG_FILE'.val, 1, Len(LogLines)) = LogLines
               /\ WORK_LOG_FILE'.val[Len(LogLines) + 1].start = SESSION_FILE.val
               /\ shell.last = "start"
          /\ shell'.status # 0 =>
               /\ shell'.status = 1
               /\ SESSION_FILE' = SESSION_FILE
               /\ WORK_LOG_FILE' = WORK_LOG_FILE
     /\ shell'.cmd \in {"status", "report", "usage"} =>
          /\ SESSION_FILE' = SESSION_FILE
          /\ WORK_LOG_FILE' = WORK_LOG_FILE]_vars

\* two sessions were started and stopped in turn, and a further stop was
\* rejected
C29_Witness ==
  /\ Len(LogLines) = 2
  /\ LogLines[1].end <= LogLines[2].start
  /\ SESSION_FILE = Null
  /\ shell.cmd = "stop"
  /\ shell.status = 1

-----------------------------------------------------------------------------
(* Properties of the paging of shared links (checked under LinksSpec).     *)

\* the places of the links returned so far: <<page, index in the page>>
Places ==
  UNION {{<<i, j>> : j \in 1..Len(pager.pages[i].shares)} :
           i \in 1..Len(pager.pages)}

Before(p, q) == p[1] < q[1] \/ (p[1] = q[1] /\ p[2] < q[2])

LinkAt(p) == pager.pages[p[1]].shares[p[2]]

\* the links of the caller's user that pages 1..n did not return
Remaining(n) ==
  {l \in SharedLink :
     /\ l.user = pager.user
     /\ \A p \in Places : p[1] <= n => LinkAt(p).id # l.id}

\* C30: following nextCursor page after page for one user with a fixed
\* pageSize, every link returned is the user's, no link is returned twice,
\* the links come in descending createdAt order, a page has hasNextPage and
\* nextCursor set exactly when links of the user remain after it, and once a
\* page has them unset every link of the user was returned.
C30_EachLinkOnce ==
  pager # NoPager =>
    /\ \A p \in Places : LinkAt(p) \in SharedLink /\ LinkAt(p).user = pager.user
    /\ \A p, q \in Places :
         Before(p, q) =>
           /\ LinkAt(p).id # LinkAt(q).id
           /\ LinkAt(p).createdAt >= LinkAt(q).createdAt
    /\ \A n \in 1..Len(pager.pages) :
         /\ pager.pages[n].hasNextPage <=> pager.pages[n].nextCursor # Null
         /\ pager.pages[n].hasNextPage <=> Remaining(n) # {}
    /\ ~pager.pages[Len(pager.pages)].hasNextPage =>
         Remaining(Len(pager.pages)) = {}
====
